---- MODULE Spec2Model ----
(***************************************************************************)
(* On-demand traffic monitoring of mikrotik-collector.                     *)
(*                                                                         *)
(* OnDemandTrafficService (internal/application/services) keeps one       *)
(* CustomerMonitor per customer id, reference-counted by the websocket     *)
(* viewers of TrafficMonitorHandler.StreamCustomerTraffic.  Each monitor   *)
(* owns a goroutine (runMonitorLoop) that opens the device stream, fans    *)
(* every sample out to the observers' buffered channels and to the Redis   *)
(* stream, and restarts the stream a bounded number of times.              *)
(*                                                                         *)
(* Granularity: one action per critical section of s.mu.  Acquiring the    *)
(* per-customer lock is merged with the critical section that follows it,  *)
(* releasing it with the one that precedes it; time.Sleep is a delay with  *)
(* no effect on the state.  The goroutine that addObserver starts waits    *)
(* for ctx.Done(); the end of the caller's context and the critical        *)
(* section of that goroutine are one action (nothing else reads ctx).      *)
(* The handler's decision to leave its loop (streamChan closed and         *)
(* drained, or a failed socket write) is merged with the deferred          *)
(* StopMonitoring it leads to: nothing else reads a buffer once its        *)
(* handler has left.                                                       *)
(*                                                                         *)
(* A caller c runs at most one viewer session; the monitor a caller        *)
(* creates, its context and its loop goroutine are named by that caller,   *)
(* and so is the observer channel the caller receives.                     *)
(***************************************************************************)
EXTENDS Integers, Sequences, FiniteSets, TLC

\* ---------------------------------------------------------------- bounds
NumCallers == 2
MaxSamples == 1

\* ------------------------------------------------------------- constants
maxRestarts == 3
ObserverBufferSize == 50

Callers == 1..NumCallers
Keys == {"k1", "k2"}
NoCaller == 0
NoMonitor == 0

ResolutionErrors ==
  {"NotFound", "NoRoutingAttribute", "ResolutionFailed", "NoActiveSession"}
CustomerRows == {"absent", "nousername", "pppoe"}
DeviceReplies == {"runerror", "nomatch", "match"}
WriteOutcomes == {"ok", "blocked"}

VARIABLES
  pc,             \* position of each viewer handler
  key,            \* customer id the handler was called with
  result,         \* what StartMonitoring returned to the handler
  cleaned,        \* the ctx.Done() goroutine of addObserver has run
  monitorLocks,   \* customer ids that have a per-customer mutex
  lockHolder,     \* holder of each per-customer mutex
  activeMonitors, \* customer id -> registered monitor
  monitors,       \* the CustomerMonitor objects ever created
  loopPc,         \* position of each monitor's runMonitorLoop goroutine
  attempts,       \* MonitorTraffic calls made so far by each running loop
  tornBy,         \* what cancelled each monitor: "none", "stop", "restart"
  chans,          \* the observer channels
  bus,            \* entries appended to the Redis stream since Init
  produced,       \* frames the device has pushed so far
  frames,         \* frames the device will still push
  inflight,       \* the sample each loop has taken and not yet fanned out
  takers,         \* which loop took each frame pushed since Init
  gone,           \* viewers whose websocket connection has closed
  linkClient,     \* Client.Client: the connection the Link points to
  conns,          \* every device connection dialled so far
  call,           \* per task: its call of Run / MonitorTraffic / StreamPing
  stream,         \* per task: the stream its call returned
  entries,        \* the Redis stream: the payload of each entry, by id
  lastDelivered,  \* consumer group: id of the last entry delivered
  pel,            \* consumer group: ids delivered and not acknowledged
  acked,          \* ids the group has acknowledged
  batch,          \* consumer: ids of the batch not yet processed
  cpc,            \* consumer: where Start is in its loop
  handed,         \* ids whose payload the broadcaster has received
  hubPc,          \* broadcaster: where it is in its loop
  clients,        \* WebSocketHandler.clients
  joined,         \* every connection that was ever registered
  left,           \* connections whose HandleWS has run its deferred delete
  todo,           \* connections the running range loop has yet to reach
  written,        \* per connection: the messages written to it
  snapshot,       \* the clients when the running broadcast began
  failed,         \* connections on which a write has failed
  current,        \* the message being broadcast
  rlock,          \* the broadcaster holds the read lock of clientsMu
  session,        \* one PingCustomerStream call: its tallies and its output
  probe,          \* one probe session with its read pump and its stream
  wire,           \* one MonitorTraffic stream: its goroutine and its frames
  panicked        \* the process died in a runtime panic

vars == <<pc, key, result, cleaned, monitorLocks, lockHolder, activeMonitors,
          monitors, loopPc, attempts, tornBy, chans, bus, produced,
          frames, inflight, takers, gone, linkClient, conns, call, stream,
          entries, lastDelivered, pel, acked, batch, cpc, handed, hubPc,
          clients, joined, left, todo, written, snapshot, failed, current,
          rlock, session,
          probe, wire, panicked>>

callerVars == <<pc, key, result>>
serviceVars == <<activeMonitors, monitors, loopPc, tornBy, chans>>
streamVars == <<bus, produced, frames, inflight, takers>>
historyVars == <<attempts>>
\* what lies outside the traffic service and its handler loop
viewerVars == <<gone>>
linkVars == <<linkClient, conns, call, stream>>
consumerVars ==
  <<entries, lastDelivered, pel, acked, batch, cpc, handed, hubPc>>
hubVars ==
  <<clients, joined, left, todo, written, snapshot, failed, current, rlock>>
pingVars == <<session>>
wireVars == <<wire>>
probeVars == <<probe>>
outerVars ==
  <<viewerVars, linkVars, consumerVars, hubVars, pingVars, wireVars,
    probeVars>>

\* ------------------------------------------------------------ data types
Sample(k, n) == [CustomerID |-> k, seq |-> n]
Sentinel(k) == [CustomerID |-> k, seq |-> 0]
NoSample == [CustomerID |-> "k1", seq |-> -1]

NoChan == [made |-> FALSE, buf |-> << >>, closed |-> FALSE]
NewChan == [made |-> TRUE, buf |-> << >>, closed |-> FALSE]

NilMonitor ==
  [created |-> FALSE, CustomerID |-> "k1", Clients |-> 0, Observers |-> {},
   restartCount |-> 0, cancelled |-> FALSE]
\* A monitor that was cancelled and deleted from activeMonitors: nothing
\* reads its counters or its observer map any more, only its context
DeadMonitor(mon) ==
  [created |-> TRUE, CustomerID |-> mon.CustomerID, Clients |-> 0,
   Observers |-> {}, restartCount |-> 0, cancelled |-> TRUE]
NewMonitor(k) ==
  [created |-> TRUE, CustomerID |-> k, Clients |-> 1, Observers |-> {},
   restartCount |-> 0, cancelled |-> FALSE]

Running == ~panicked

\* ----------------------------------------------------------- channel ops
\* select { case ch <- s: default: } on a channel of capacity 50
ChanSend_Unbounded(ch, s) == [ch EXCEPT !.buf = Append(@, s)]
ChanSend(ch, s) ==
  IF Len(ch.buf) < ObserverBufferSize
    THEN [ch EXCEPT !.buf = Append(@, s)]
    ELSE ch

ChanClose(ch) == [ch EXCEPT !.closed = TRUE]

\* publishTrafficData, step 2: non-blocking send to every observer in S
Broadcast(chs, S, s) ==
  [c \in Callers |-> IF c \in S THEN ChanSend(chs[c], s) ELSE chs[c]]

\* StopMonitoring: for ch := range monitor.Observers { close(ch) }
CloseObservers(chs, S) ==
  [c \in Callers |-> IF c \in S THEN ChanClose(chs[c]) ELSE chs[c]]

\* runMonitorLoop: offer the final sample without blocking, then close
NotifyAndClose_NoClose(chs, S, s) ==
  [c \in Callers |-> IF c \in S THEN ChanSend(chs[c], s) ELSE chs[c]]
NotifyAndClose(chs, S, s) ==
  [c \in Callers |->
     IF c \in S THEN ChanClose(ChanSend(chs[c], s)) ELSE chs[c]]

\* a send on, or a close of, a closed channel panics
AnyClosed(chs, S) == \E c \in S : chs[c].closed

\* lock.Lock() on the mutex of customer k can proceed
KeyLockFree_NoMutex(k) == TRUE
KeyLockFree(k) == lockHolder[k] = NoCaller

\* ------------------------------------------------------------ resolution
\* GetCustomerByID, the PPPoE username check and getActiveInterfaceForCustomer
Resolve(cust, dev) ==
  IF cust = "absent" THEN "NotFound"
  ELSE IF cust = "nousername" THEN "NoRoutingAttribute"
  ELSE IF dev = "runerror" THEN "ResolutionFailed"
  ELSE IF dev = "nomatch" THEN "NoActiveSession"
  ELSE "ok"

\* ------------------------------------------------------------------ Init
\* the goroutines that use the one shared Client at the same time
NumTasks == 2
Tasks == 1..NumTasks

\* part_001 lines 30-36: NewClient has dialled the first connection
NoError == << >>
NewConn == [open |-> TRUE]
IdleCall ==
  [pc |-> "idle", op |-> "Run", err |-> NoError, res |-> NoError,
   last |-> NoError, issued |-> 0, reconnects |-> 0, dials |-> 0,
   recErr |-> NoError]
NoStream ==
  [state |-> "none", conn |-> 1, closed |-> FALSE, ctx |-> FALSE,
   consuming |-> FALSE, left |-> 0]

InitLink ==
  /\ linkClient = 1
  /\ conns = <<NewConn>>
  /\ call = [t \in Tasks |-> IdleCall]
  /\ stream = [t \in Tasks |-> NoStream]

\* redis_stream_consumer.go lines 20-43 and main.go lines 24, 156-161: an
\* empty stream, a consumer about to read, a broadcaster about to receive
InitConsumer ==
  /\ entries = << >>
  /\ lastDelivered = 0
  /\ pel = {}
  /\ acked = {}
  /\ batch = << >>
  /\ cpc = "read"
  /\ handed = << >>
  /\ hubPc = "recv"

\* the connections that viewers open to the hub
NumConns == 2
Conns == 1..NumConns

\* customer_handler.go lines 182-188: no client is registered
InitHub ==
  /\ clients = {}
  /\ joined = {}
  /\ left = {}
  /\ todo = {}
  /\ written = [c \in Conns |-> << >>]
  /\ snapshot = {}
  /\ failed = {}
  /\ current = 0
  /\ rlock = FALSE

\* ping_handler.go lines 137-157: the session is about to call StreamPing
InitPing ==
  session = [pc |-> "start", sent |-> 0, received |-> 0, loss |-> 0,
             probes |-> << >>, emitted |-> << >>]

\* part_002 lines 60-66: the goroutine of MonitorTraffic is in its select,
\* the device has frames to push
WireFrames == MaxSamples + 2
InitWire ==
  wire = [state |-> "select", out |-> "none", left |-> WireFrames,
          seen |-> << >>, sent |-> << >>]

\* ping_handler.go lines 137-155: the context is made, the close handler is
\* set and the read pump runs; StreamPing has not been called yet
ProbeFrames == MaxSamples + 2
InitProbe ==
  probe = [viewer |-> "open", ctx |-> FALSE, pump |-> "reading",
           gor |-> "none", handler |-> "open", left |-> ProbeFrames,
           updates |-> 0]

InitOuter ==
  /\ gone = {}
  /\ InitLink
  /\ InitConsumer
  /\ InitHub
  /\ InitPing
  /\ InitWire
  /\ InitProbe

Init ==
  /\ pc = [c \in Callers |-> "idle"]
  /\ key = [c \in Callers |-> "k1"]
  /\ result = [c \in Callers |-> "none"]
  /\ cleaned = [c \in Callers |-> FALSE]
  /\ monitorLocks = {}
  /\ lockHolder = [k \in Keys |-> NoCaller]
  /\ activeMonitors = [k \in Keys |-> NoMonitor]
  /\ monitors = [m \in Callers |-> NilMonitor]
  /\ loopPc = [m \in Callers |-> "none"]
  /\ attempts = [m \in Callers |-> 0]
  /\ tornBy = [m \in Callers |-> "none"]
  /\ chans = [c \in Callers |-> NoChan]
  /\ bus = << >>
  /\ produced = 0
  /\ frames = MaxSamples
  /\ inflight = [m \in Callers |-> NoSample]
  /\ takers = << >>
  /\ panicked = FALSE
  /\ InitOuter

\* ------------------------------------------------------- StartMonitoring
\* Callers are numbered in the order in which they call the service; all of
\* them may watch k1, the last one may watch k2 instead
MayStart(c) == \A d \in Callers : d < c => pc[d] # "idle"
Requests(c) == IF c = NumCallers THEN Keys ELSE {"k1"}

\* lines 59-80: the mutex of the customer is created on first use and locked;
\* the monitor is looked up under s.mu
StartMonitoring_Check(c, k) ==
  /\ Running
  /\ pc[c] = "idle"
  /\ MayStart(c)
  /\ KeyLockFree(k)
  /\ key' = [key EXCEPT ![c] = k]
  /\ monitorLocks' = monitorLocks \cup {k}
  /\ lockHolder' = [lockHolder EXCEPT ![k] = c]
  /\ LET m == activeMonitors[k] IN
       IF m # NoMonitor
         THEN /\ monitors' = [monitors EXCEPT ![m].Clients = @ + 1]
              /\ pc' = [pc EXCEPT ![c] = "start_add"]
         ELSE /\ monitors' = monitors
              /\ pc' = [pc EXCEPT ![c] = "start_resolve"]
  /\ UNCHANGED <<result, cleaned, activeMonitors, loopPc, tornBy, chans,
                 streamVars, historyVars, panicked>>
  /\ UNCHANGED outerVars

\* lines 82-121: resolve the customer; on success store the monitor and start
\* its goroutine, on failure return the error (the deferred Unlock runs)
StartMonitoring_Resolve_StoreFirst(c, cust, dev) ==
  /\ Running
  /\ pc[c] = "start_resolve"
  /\ monitors' = [monitors EXCEPT ![c] = NewMonitor(key[c])]
  /\ activeMonitors' = [activeMonitors EXCEPT ![key[c]] = c]
  /\ loopPc' = [loopPc EXCEPT ![c] = "top"]
  /\ LET r == Resolve(cust, dev) IN
       IF r # "ok"
         THEN /\ result' = [result EXCEPT ![c] = r]
              /\ pc' = [pc EXCEPT ![c] = "done"]
              /\ lockHolder' = [lockHolder EXCEPT ![key[c]] = NoCaller]
         ELSE /\ pc' = [pc EXCEPT ![c] = "start_add"]
              /\ UNCHANGED <<result, lockHolder>>
  /\ UNCHANGED <<key, cleaned, monitorLocks, tornBy, chans, streamVars,
                 historyVars, panicked>>
  /\ UNCHANGED outerVars
StartMonitoring_Resolve(c, cust, dev) ==
  /\ Running
  /\ pc[c] = "start_resolve"
  /\ LET r == Resolve(cust, dev) IN
       IF r # "ok"
         THEN /\ result' = [result EXCEPT ![c] = r]
              /\ pc' = [pc EXCEPT ![c] = "done"]
              /\ lockHolder' = [lockHolder EXCEPT ![key[c]] = NoCaller]
              /\ UNCHANGED <<activeMonitors, monitors, loopPc>>
         ELSE /\ monitors' = [monitors EXCEPT ![c] = NewMonitor(key[c])]
              /\ activeMonitors' = [activeMonitors EXCEPT ![key[c]] = c]
              /\ loopPc' = [loopPc EXCEPT ![c] = "top"]
              /\ pc' = [pc EXCEPT ![c] = "start_add"]
              /\ UNCHANGED <<result, lockHolder>>
  /\ UNCHANGED <<key, cleaned, monitorLocks, tornBy, chans, streamVars,
                 historyVars, panicked>>
  /\ UNCHANGED outerVars

\* lines 333-358 and the deferred Unlock of StartMonitoring
addObserver(c) ==
  /\ Running
  /\ pc[c] = "start_add"
  /\ LET m == activeMonitors[key[c]] IN
       IF m = NoMonitor
         THEN /\ result' = [result EXCEPT ![c] = "MonitorNotRunning"]
              /\ pc' = [pc EXCEPT ![c] = "done"]
              /\ UNCHANGED <<monitors, chans>>
         ELSE /\ chans' = [chans EXCEPT ![c] = NewChan]
              /\ monitors' = [monitors EXCEPT ![m].Observers = @ \cup {c}]
              /\ result' = [result EXCEPT ![c] = "chan"]
              /\ pc' = [pc EXCEPT ![c] = "streaming"]
  /\ lockHolder' = [lockHolder EXCEPT ![key[c]] = NoCaller]
  /\ UNCHANGED <<key, cleaned, monitorLocks, activeMonitors, loopPc, tornBy,
                 streamVars, historyVars, panicked>>
  /\ UNCHANGED outerVars

\* lines 347-355: the caller's context ends and the cleanup goroutine runs
ctxDone_NoDelete(c) ==
  /\ Running
  /\ chans[c].made
  /\ ~cleaned[c]
  /\ cleaned' = [cleaned EXCEPT ![c] = TRUE]
  /\ LET m == activeMonitors[key[c]] IN
       IF m = NoMonitor
         THEN UNCHANGED <<chans, panicked>>
         ELSE IF chans[c].closed
                THEN /\ panicked' = TRUE
                     /\ chans' = chans
                ELSE /\ chans' = [chans EXCEPT ![c] = ChanClose(@)]
                     /\ panicked' = panicked
  /\ UNCHANGED <<callerVars, monitorLocks, lockHolder, activeMonitors, monitors,
                 loopPc, tornBy, streamVars, historyVars>>
  /\ UNCHANGED outerVars
ctxDone(c) ==
  /\ Running
  /\ chans[c].made
  /\ ~cleaned[c]
  /\ cleaned' = [cleaned EXCEPT ![c] = TRUE]
  /\ LET m == activeMonitors[key[c]] IN
       IF m = NoMonitor
         THEN UNCHANGED <<monitors, chans, panicked>>
         ELSE /\ monitors' = [monitors EXCEPT ![m].Observers = @ \ {c}]
              /\ IF chans[c].closed
                   THEN /\ panicked' = TRUE
                        /\ chans' = chans
                   ELSE /\ chans' = [chans EXCEPT ![c] = ChanClose(@)]
                        /\ panicked' = panicked
  /\ UNCHANGED <<callerVars, monitorLocks, lockHolder, activeMonitors, loopPc,
                 tornBy, streamVars, historyVars>>
  /\ UNCHANGED outerVars

\* -------------------------------------------------------- StopMonitoring
\* lines 189-223 for customer id k, run on the channel state chs: without a
\* mutex for k or without a monitor nothing happens; otherwise Clients is
\* decremented and at zero the monitor is cancelled, deleted and its
\* observers are closed
StopMonitoring_NoRefCount(k, chs) ==
  LET m == activeMonitors[k] IN
    IF k \notin monitorLocks \/ m = NoMonitor
      THEN /\ chans' = chs
           /\ UNCHANGED <<activeMonitors, monitors, tornBy, panicked>>
      ELSE /\ monitors' = [monitors EXCEPT ![m] = DeadMonitor(@)]
           /\ tornBy' = [tornBy EXCEPT ![m] = "stop"]
           /\ activeMonitors' = [activeMonitors EXCEPT ![k] = NoMonitor]
           /\ chans' = CloseObservers(chs, monitors[m].Observers)
           /\ panicked' = AnyClosed(chs, monitors[m].Observers)
StopMonitoring(k, chs) ==
  LET m == activeMonitors[k] IN
    IF k \notin monitorLocks \/ m = NoMonitor
      THEN /\ chans' = chs
           /\ UNCHANGED <<activeMonitors, monitors, tornBy, panicked>>
      ELSE IF monitors[m].Clients - 1 <= 0
        THEN /\ monitors' = [monitors EXCEPT ![m] = DeadMonitor(@)]
             /\ tornBy' = [tornBy EXCEPT ![m] = "stop"]
             /\ activeMonitors' = [activeMonitors EXCEPT ![k] = NoMonitor]
             /\ chans' = CloseObservers(chs, monitors[m].Observers)
             /\ panicked' = AnyClosed(chs, monitors[m].Observers)
        ELSE /\ monitors' = [monitors EXCEPT ![m].Clients = @ - 1]
             /\ chans' = chs
             /\ UNCHANGED <<activeMonitors, tornBy, panicked>>

\* -------------------------------------------------------- runMonitorLoop
\* the goroutine moves on / returns (its attempt count goes with it)
Goto(m, l) ==
  /\ loopPc' = [loopPc EXCEPT ![m] = l]
  /\ attempts' = attempts
Return(m) ==
  /\ loopPc' = [loopPc EXCEPT ![m] = "exit"]
  /\ attempts' = [attempts EXCEPT ![m] = 0]

\* lines 231-235: select on ctx.Done() with a default
runMonitorLoop_Top(m) ==
  /\ Running
  /\ loopPc[m] = "top"
  /\ IF monitors[m].cancelled THEN Return(m) ELSE Goto(m, "check")
  /\ UNCHANGED <<callerVars, cleaned, monitorLocks, lockHolder, activeMonitors,
                 monitors, tornBy, chans, streamVars, panicked>>
  /\ UNCHANGED outerVars

runMonitorLoop_Check_NoDelete(m) ==
  /\ Running
  /\ loopPc[m] = "check"
  /\ LET k == monitors[m].CustomerID
         cur == activeMonitors[k]
     IN IF cur = NoMonitor
          THEN /\ Return(m)
               /\ UNCHANGED <<activeMonitors, monitors, tornBy, chans,
                              panicked>>
          ELSE IF monitors[cur].restartCount >= maxRestarts
            THEN /\ monitors' = [monitors EXCEPT ![cur] = DeadMonitor(@)]
                 /\ tornBy' = [tornBy EXCEPT ![cur] = "restart"]
                 /\ activeMonitors' = activeMonitors
                 /\ chans' = NotifyAndClose(chans, monitors[cur].Observers,
                                            Sentinel(k))
                 /\ panicked' = AnyClosed(chans, monitors[cur].Observers)
                 /\ Return(m)
            ELSE /\ Goto(m, "open")
                 /\ UNCHANGED <<activeMonitors, monitors, tornBy, chans,
                                panicked>>
  /\ UNCHANGED <<callerVars, cleaned, monitorLocks, lockHolder, streamVars>>
  /\ UNCHANGED outerVars

\* lines 237-265: look the monitor of customer.ID up and check its budget
runMonitorLoop_Check(m) ==
  /\ Running
  /\ loopPc[m] = "check"
  /\ LET k == monitors[m].CustomerID
         cur == activeMonitors[k]
     IN IF cur = NoMonitor
          THEN /\ Return(m)
               /\ UNCHANGED <<activeMonitors, monitors, tornBy, chans,
                              panicked>>
          ELSE IF monitors[cur].restartCount >= maxRestarts
            THEN /\ monitors' = [monitors EXCEPT ![cur] = DeadMonitor(@)]
                 /\ tornBy' = [tornBy EXCEPT ![cur] = "restart"]
                 /\ activeMonitors' = [activeMonitors EXCEPT ![k] = NoMonitor]
                 /\ chans' = NotifyAndClose(chans, monitors[cur].Observers,
                                            Sentinel(k))
                 /\ panicked' = AnyClosed(chans, monitors[cur].Observers)
                 /\ Return(m)
            ELSE /\ Goto(m, "open")
                 /\ UNCHANGED <<activeMonitors, monitors, tornBy, chans,
                                panicked>>
  /\ UNCHANGED <<callerVars, cleaned, monitorLocks, lockHolder, streamVars>>
  /\ UNCHANGED outerVars

\* lines 273-277 and 291-295: count a restart on the monitor registered for
\* customer.ID, if there is one
CountRestart(mons, k) ==
  IF activeMonitors[k] # NoMonitor
    THEN [mons EXCEPT ![activeMonitors[k]].restartCount = @ + 1]
    ELSE mons

\* lines 268-283: MonitorTraffic; a failure is counted, then the loop sleeps
MonitorTraffic(m, ok) ==
  /\ Running
  /\ loopPc[m] = "open"
  /\ attempts' = [attempts EXCEPT ![m] = @ + 1]
  /\ IF ok
       THEN /\ loopPc' = [loopPc EXCEPT ![m] = "stream"]
            /\ monitors' = monitors
       ELSE /\ loopPc' = [loopPc EXCEPT ![m] = "top"]
            /\ monitors' = CountRestart(monitors, monitors[m].CustomerID)
  /\ UNCHANGED <<callerVars, cleaned, monitorLocks, lockHolder, activeMonitors,
                 tornBy, chans, streamVars, panicked>>
  /\ UNCHANGED outerVars

\* lines 377-395: append to the Redis stream, then send to the observers of
\* the monitor registered for data.CustomerID
publishTrafficData_Blocking(data) ==
  /\ bus' = Append(bus, data)
  /\ LET cur == activeMonitors[data.CustomerID] IN
       IF cur = NoMonitor
         THEN UNCHANGED <<chans, panicked>>
         ELSE /\ \A c \in monitors[cur].Observers :
                   Len(chans[c].buf) < ObserverBufferSize
              /\ chans' = Broadcast(chans, monitors[cur].Observers, data)
              /\ panicked' = AnyClosed(chans, monitors[cur].Observers)
publishTrafficData(data) ==
  /\ bus' = Append(bus, data)
  /\ LET cur == activeMonitors[data.CustomerID] IN
       IF cur = NoMonitor
         THEN UNCHANGED <<chans, panicked>>
         ELSE /\ chans' = Broadcast(chans, monitors[cur].Observers, data)
              /\ panicked' = AnyClosed(chans, monitors[cur].Observers)

\* lines 313-327: a frame arrives on trafficChan; a frame without an
\* interface name is skipped
processTrafficStream_Sample(m, named) ==
  /\ Running
  /\ loopPc[m] = "stream"
  /\ frames > 0
  /\ frames' = frames - 1
  /\ produced' = produced + 1
  /\ takers' = Append(takers, m)
  /\ inflight' = inflight
  /\ IF named
       THEN publishTrafficData(Sample(monitors[m].CustomerID, produced + 1))
       ELSE UNCHANGED <<bus, chans, panicked>>
  /\ UNCHANGED <<callerVars, cleaned, monitorLocks, lockHolder, activeMonitors,
                 monitors, loopPc, tornBy, historyVars>>
  /\ UNCHANGED outerVars

\* lines 314-317 and 288-298: trafficChan is closed; a restart is counted
processTrafficStream_Closed(m) ==
  /\ Running
  /\ loopPc[m] = "stream"
  /\ loopPc' = [loopPc EXCEPT ![m] = "top"]
  /\ monitors' = CountRestart(monitors, monitors[m].CustomerID)
  /\ UNCHANGED <<callerVars, cleaned, monitorLocks, lockHolder, activeMonitors,
                 tornBy, chans, streamVars, historyVars, panicked>>
  /\ UNCHANGED outerVars

\* lines 311-312 and 231-234: ctx.Done() wins the select; the loop returns
processTrafficStream_Done(m) ==
  /\ Running
  /\ loopPc[m] = "stream"
  /\ monitors[m].cancelled
  /\ Return(m)
  /\ UNCHANGED <<callerVars, cleaned, monitorLocks, lockHolder, activeMonitors,
                 monitors, tornBy, chans, streamVars, panicked>>
  /\ UNCHANGED outerVars

\* ------------------------------------------------- StreamCustomerTraffic
\* lines 99-103: take one sample from streamChan and write it to the socket;
\* the write succeeds or never returns (no write deadline is set)
StreamCustomerTraffic_Recv(c, outcome) ==
  /\ Running
  /\ pc[c] = "streaming"
  /\ chans[c].buf # << >>
  /\ chans' = [chans EXCEPT ![c].buf = Tail(@)]
  /\ pc' = [pc EXCEPT ![c] = IF outcome = "ok" THEN "streaming" ELSE "stalled"]
  /\ UNCHANGED <<key, result, cleaned, monitorLocks, lockHolder,
                 activeMonitors, monitors, loopPc, tornBy, streamVars,
                 historyVars, panicked>>
  /\ UNCHANGED outerVars

\* lines 99-108 and 87: the write of a sample fails, the loop breaks and the
\* deferred StopMonitoring runs
StreamCustomerTraffic_WriteError(c) ==
  /\ Running
  /\ pc[c] = "streaming"
  /\ chans[c].buf # << >>
  /\ KeyLockFree(key[c])
  /\ StopMonitoring(key[c], [chans EXCEPT ![c].buf = Tail(@)])
  /\ pc' = [pc EXCEPT ![c] = "done"]
  /\ UNCHANGED <<key, result, cleaned, monitorLocks, lockHolder, loopPc,
                 streamVars, historyVars>>
  /\ UNCHANGED outerVars

\* lines 99 and 87: streamChan is closed and drained, the loop ends and the
\* deferred StopMonitoring runs
StreamCustomerTraffic_Closed(c) ==
  /\ Running
  /\ pc[c] = "streaming"
  /\ chans[c].buf = << >>
  /\ chans[c].closed
  /\ KeyLockFree(key[c])
  /\ StopMonitoring(key[c], chans)
  /\ pc' = [pc EXCEPT ![c] = "done"]
  /\ UNCHANGED <<key, result, cleaned, monitorLocks, lockHolder, loopPc,
                 streamVars, historyVars>>
  /\ UNCHANGED outerVars

\* lines 188-223 called for a customer id without a StartMonitoring before it
StopMonitoring_Stray_NilDeref(c, k) ==
  /\ Running
  /\ pc[c] = "idle"
  /\ MayStart(c)
  /\ k \in monitorLocks => KeyLockFree(k)
  /\ key' = [key EXCEPT ![c] = k]
  /\ pc' = [pc EXCEPT ![c] = "done"]
  /\ IF activeMonitors[k] = NoMonitor
       THEN /\ panicked' = TRUE
            /\ UNCHANGED <<activeMonitors, monitors, tornBy, chans>>
       ELSE StopMonitoring(k, chans)
  /\ UNCHANGED <<result, cleaned, monitorLocks, lockHolder, loopPc,
                 streamVars, historyVars>>
  /\ UNCHANGED outerVars
StopMonitoring_Stray(c, k) ==
  /\ Running
  /\ pc[c] = "idle"
  /\ MayStart(c)
  /\ k \in monitorLocks => KeyLockFree(k)
  /\ key' = [key EXCEPT ![c] = k]
  /\ pc' = [pc EXCEPT ![c] = "done"]
  /\ StopMonitoring(k, chans)
  /\ UNCHANGED <<result, cleaned, monitorLocks, lockHolder, loopPc,
                 streamVars, historyVars>>
  /\ UNCHANGED outerVars

\* ------------------------------------------------------------------ Next
\* The viewers of the websocket endpoint and the goroutines they start
Next ==
  \/ \E c \in Callers : \E k \in Requests(c) : StartMonitoring_Check(c, k)
  \/ \E c \in Callers, cust \in CustomerRows, dev \in DeviceReplies :
       StartMonitoring_Resolve(c, cust, dev)
  \/ \E c \in Callers : addObserver(c)
  \/ \E c \in Callers : ctxDone(c)
  \/ \E m \in Callers : runMonitorLoop_Top(m)
  \/ \E m \in Callers : runMonitorLoop_Check(m)
  \/ \E m \in Callers, ok \in BOOLEAN : MonitorTraffic(m, ok)
  \/ \E m \in Callers, named \in BOOLEAN : processTrafficStream_Sample(m, named)
  \/ \E m \in Callers : processTrafficStream_Closed(m)
  \/ \E m \in Callers : processTrafficStream_Done(m)
  \/ \E c \in Callers, o \in WriteOutcomes : StreamCustomerTraffic_Recv(c, o)
  \/ \E c \in Callers : StreamCustomerTraffic_WriteError(c)
  \/ \E c \in Callers : StreamCustomerTraffic_Closed(c)

Spec == Init /\ [][Next]_vars

\* The service behind its exported methods: a caller may also call
\* StopMonitoring without having called StartMonitoring
NextApi ==
  \/ \E c \in Callers : \E k \in Requests(c) : StartMonitoring_Check(c, k)
  \/ \E c \in Callers, cust \in CustomerRows, dev \in DeviceReplies :
       StartMonitoring_Resolve(c, cust, dev)
  \/ \E c \in Callers : addObserver(c)
  \/ \E c \in Callers : ctxDone(c)
  \/ \E c \in Callers, k \in Keys : StopMonitoring_Stray(c, k)
  \/ \E m \in Callers : runMonitorLoop_Top(m)
  \/ \E m \in Callers : runMonitorLoop_Check(m)
  \/ \E m \in Callers, ok \in BOOLEAN : MonitorTraffic(m, ok)
  \/ \E m \in Callers, named \in BOOLEAN : processTrafficStream_Sample(m, named)
  \/ \E m \in Callers : processTrafficStream_Closed(m)
  \/ \E m \in Callers : processTrafficStream_Done(m)
  \/ \E c \in Callers, o \in WriteOutcomes : StreamCustomerTraffic_Recv(c, o)
  \/ \E c \in Callers : StreamCustomerTraffic_WriteError(c)
  \/ \E c \in Callers : StreamCustomerTraffic_Closed(c)

SpecApi == Init /\ [][NextApi]_vars

\* A device on which /interface/monitor-traffic fails every time: no stream
\* is ever opened and no frame arrives
NextDown ==
  \/ \E c \in Callers : \E k \in Requests(c) : StartMonitoring_Check(c, k)
  \/ \E c \in Callers, cust \in CustomerRows, dev \in DeviceReplies :
       StartMonitoring_Resolve(c, cust, dev)
  \/ \E c \in Callers : addObserver(c)
  \/ \E c \in Callers : ctxDone(c)
  \/ \E m \in Callers : runMonitorLoop_Top(m)
  \/ \E m \in Callers : runMonitorLoop_Check(m)
  \/ \E m \in Callers : MonitorTraffic(m, FALSE)
  \/ \E c \in Callers : StreamCustomerTraffic_Closed(c)

SpecDown == Init /\ [][NextDown]_vars

\* A viewer that stopped reading: caller 1 watches k1, the stream of its
\* monitor has delivered one sample more than the channel holds, the handler
\* took the first one and is blocked writing it to the socket, the others
\* fill its channel.  bus starts empty here: it records the entries appended
\* from the initial state on.
InitLoaded ==
  /\ pc = [c \in Callers |-> IF c = 1 THEN "stalled" ELSE "idle"]
  /\ key = [c \in Callers |-> "k1"]
  /\ result = [c \in Callers |-> IF c = 1 THEN "chan" ELSE "none"]
  /\ cleaned = [c \in Callers |-> FALSE]
  /\ monitorLocks = {"k1"}
  /\ lockHolder = [k \in Keys |-> NoCaller]
  /\ activeMonitors = [k \in Keys |-> IF k = "k1" THEN 1 ELSE NoMonitor]
  /\ monitors = [m \in Callers |->
                   IF m = 1 THEN [NewMonitor("k1") EXCEPT !.Observers = {1}]
                            ELSE NilMonitor]
  /\ loopPc = [m \in Callers |-> IF m = 1 THEN "stream" ELSE "none"]
  /\ attempts = [m \in Callers |-> IF m = 1 THEN 1 ELSE 0]
  /\ tornBy = [m \in Callers |-> "none"]
  /\ chans = [c \in Callers |->
                IF c = 1
                  THEN [made |-> TRUE, closed |-> FALSE,
                        buf |-> [i \in 1..ObserverBufferSize |->
                                   Sample("k1", i + 1)]]
                  ELSE NoChan]
  /\ bus = << >>
  /\ produced = ObserverBufferSize + 1
  /\ frames = MaxSamples
  /\ inflight = [m \in Callers |-> NoSample]
  /\ takers = << >>
  /\ panicked = FALSE
  /\ InitOuter

SpecLoaded == InitLoaded /\ [][Next]_vars

\* ============================================================ properties
Live(m) == monitors[m].created /\ ~monitors[m].cancelled
LoopRunning(m) == loopPc[m] \notin {"none", "exit"}
MonitorsOf(k) == {m \in Callers : monitors[m].created /\ monitors[m].CustomerID = k}
Subscribed(c) == pc[c] \in {"streaming", "stalled"}
Attached(k) ==
  IF activeMonitors[k] = NoMonitor THEN {}
  ELSE monitors[activeMonitors[k]].Observers

\* C1: for every customer id at most one monitor is alive (created, context
\* not cancelled), it is the one registered in activeMonitors, and at most
\* one runMonitorLoop goroutine with an uncancelled context exists.
C1_AtMostOneMonitorPerKey ==
  \A k \in Keys :
    /\ Cardinality({m \in MonitorsOf(k) : Live(m)}) <= 1
    /\ Cardinality({m \in MonitorsOf(k) : Live(m) /\ LoopRunning(m)}) <= 1
    /\ \A m \in MonitorsOf(k) : Live(m) => activeMonitors[k] = m
    /\ activeMonitors[k] # NoMonitor =>
         activeMonitors[k] \in MonitorsOf(k) /\ Live(activeMonitors[k])

\* a second monitor of a customer is alive and streaming while the goroutine
\* of the first, cancelled, monitor has not returned yet
C1_Witness ==
  \E m1, m2 \in Callers :
    /\ m1 # m2
    /\ monitors[m1].created /\ monitors[m2].created
    /\ monitors[m1].CustomerID = monitors[m2].CustomerID
    /\ monitors[m1].cancelled /\ LoopRunning(m1)
    /\ Live(m2) /\ loopPc[m2] = "stream"
    /\ Subscribed(m2)

\* ---------------------------------------------------------------- C2
\* callers of customer k whose StartMonitoring returned a channel, and those
\* of them whose handler has run its deferred StopMonitoring
SubscribeCalls(k) == {c \in Callers : key[c] = k /\ result[c] = "chan"}
UnsubscribeCalls(k) == {c \in SubscribeCalls(k) : pc[c] = "done"}
\* callers of k that hold a reference: counted by StartMonitoring, not yet
\* released by StopMonitoring
Holders(k) ==
  {c \in Callers : key[c] = k /\ pc[c] \in {"start_add", "streaming", "stalled"}}
OpenChannels(k) ==
  {c \in Callers : key[c] = k /\ chans[c].made /\ ~chans[c].closed}
Exhausted(k) == \E m \in MonitorsOf(k) : tornBy[m] = "restart"
\* no call on k is in progress or has failed, no caller context has ended and
\* the restart budget of k was never used up
Settled(k) ==
  /\ \A c \in Callers :
       pc[c] # "idle" /\ key[c] = k =>
         /\ pc[c] \notin {"start_resolve", "start_add"}
         /\ result[c] = "chan"
         /\ ~cleaned[c]
  /\ ~Exhausted(k)

C3_Original ==
  [][\A c, d \in Callers :
       ( /\ c # d
         /\ key[c] = key[d]
         /\ Subscribed(c) /\ Subscribed(d)
         /\ activeMonitors[key[c]] # NoMonitor
         /\ pc'[c] = "done" )
       => /\ activeMonitors'[key[c]] = activeMonitors[key[c]]
          /\ ~monitors'[activeMonitors[key[c]]].cancelled
          /\ chans'[d].closed = chans[d].closed]_vars

\* ---------------------------------------------------------------- C4
\* the monitor table, the contexts, the loops and the channels' open/closed
\* state
Registry == <<activeMonitors, monitors, tornBy, loopPc, panicked>>
ClosedFlags == [c \in Callers |-> chans[c].closed]

\* C4: a StopMonitoring for a customer id that has no registered monitor
\* (never subscribed, or torn down before) changes nothing: no monitor is
\* created, no Clients count changes, no context is cancelled, no channel is
\* closed.
C4_UnsubscribeWithoutMonitorIsNoOp ==
  [][\A c \in Callers :
       ( /\ pc[c] \in {"idle", "streaming"}
         /\ pc'[c] = "done"
         /\ activeMonitors[key'[c]] = NoMonitor )
       => /\ UNCHANGED Registry
          /\ ClosedFlags' = ClosedFlags]_vars

\* one caller stopped a customer id nobody ever subscribed to, another one
\* stopped after its monitor had been torn down on restart exhaustion
C4_Witness ==
  \E c, d \in Callers :
    /\ c # d
    /\ pc[c] = "done" /\ result[c] = "none" /\ key[c] \notin monitorLocks
    /\ pc[d] = "done" /\ result[d] = "chan" /\ tornBy[d] = "restart"
    /\ Running

\* ---------------------------------------------------------------- C5
\* C5: when StartMonitoring finds no monitor and the resolution fails, the
\* error is returned and the registry is as before: no monitor stored, no
\* loop started, no channel made; and nothing acts for that caller later (its
\* result stays, it never gets a monitor, a loop or a channel).
C5_ResolutionFailureLeavesRegistry ==
  [][\A c \in Callers :
       /\ (pc[c] = "start_resolve" /\ pc'[c] = "done") =>
            /\ result'[c] \in ResolutionErrors
            /\ UNCHANGED <<activeMonitors, monitors, loopPc, chans, tornBy,
                           attempts, monitorLocks>>
            /\ lockHolder'[key[c]] = NoCaller
       /\ result[c] \in ResolutionErrors =>
            /\ result'[c] = result[c] /\ pc'[c] = "done"
            /\ ~monitors'[c].created
            /\ loopPc'[c] = "none"
            /\ ~chans'[c].made]_vars

\* a resolution failed for one caller and a later caller subscribed to the
\* same customer id successfully
C5_Witness ==
  \E c, d \in Callers :
    /\ c # d /\ key[c] = key[d]
    /\ pc[c] = "done" /\ result[c] \in ResolutionErrors
    /\ ~monitors[c].created /\ loopPc[c] = "none" /\ ~chans[c].made
    /\ Subscribed(d) /\ activeMonitors[key[d]] = d

\* ---------------------------------------------------------------- C6
\* C6 as stated: StartMonitoring returns a channel or a resolution error and
\* nothing else; once it has found or registered a monitor, the monitor is
\* still registered when the observer is attached.
C6_Original ==
  \A c \in Callers :
    /\ result[c] \in {"none", "chan"} \cup ResolutionErrors
    /\ pc[c] = "start_add" => activeMonitors[key[c]] # NoMonitor

\* ---------------------------------------------------------------- C7
\* C7 as stated: on a device where every open fails, a loop that tears its
\* monitor down on restart exhaustion has made exactly maxRestarts attempts.
C7_Original ==
  [][\A m \in Callers :
       ( /\ loopPc[m] = "check" /\ loopPc'[m] = "exit"
         /\ activeMonitors[monitors[m].CustomerID] = m
         /\ activeMonitors'[monitors[m].CustomerID] = NoMonitor )
       => attempts[m] = maxRestarts]_vars

\* ---------------------------------------------------------------- C8
Last(q) == q[Len(q)]
\* what a non-blocking send of s leaves in a buffer
Offered(q, s) == IF Len(q) < ObserverBufferSize THEN Append(q, s) ELSE q

\* C8: a step that tears monitor m down on restart exhaustion cancels its
\* context, removes it from activeMonitors, leaves in every attached
\* observer's buffer the sentinel if there was room and nothing otherwise,
\* closes every attached channel and touches no other channel, and the
\* goroutine that did it returns.  A goroutine that returned never runs again,
\* a cancelled monitor is never registered again, and a customer id gets a
\* monitor again only by a StartMonitoring that creates one.
C8_ExhaustionIsTerminal ==
  [][/\ \A m \in Callers :
          (tornBy[m] # "restart" /\ tornBy'[m] = "restart") =>
            LET k == monitors[m].CustomerID IN
              /\ monitors'[m].cancelled
              /\ activeMonitors[k] = m /\ activeMonitors'[k] = NoMonitor
              /\ \A c \in Callers :
                   IF c \in monitors[m].Observers
                     THEN /\ chans'[c].closed
                          /\ chans'[c].buf = Offered(chans[c].buf, Sentinel(k))
                     ELSE chans'[c] = chans[c]
              /\ \E l \in Callers :
                   /\ monitors[l].CustomerID = k
                   /\ loopPc[l] = "check" /\ loopPc'[l] = "exit"
     /\ \A m \in Callers :
          /\ loopPc[m] = "exit" => loopPc'[m] = "exit"
          /\ monitors[m].cancelled =>
               /\ monitors'[m].cancelled
               /\ activeMonitors'[monitors[m].CustomerID] # m
     /\ \A k \in Keys :
          (activeMonitors[k] = NoMonitor /\ activeMonitors'[k] # NoMonitor) =>
            \E c \in Callers :
              /\ pc[c] = "start_resolve" /\ pc'[c] = "start_add"
              /\ key[c] = k /\ activeMonitors'[k] = c
              /\ ~monitors[c].created]_vars

\* the monitor of the stalled viewer was torn down on restart exhaustion: the
\* full channel was closed without the sentinel, the channel of a second
\* viewer was closed with the sentinel as its last element
C8_Witness ==
  /\ tornBy[1] = "restart" /\ loopPc[1] = "exit"
  /\ chans[1].closed /\ Len(chans[1].buf) = ObserverBufferSize
  /\ Last(chans[1].buf) # Sentinel("k1")
  /\ \E c \in Callers :
       /\ c # 1 /\ key[c] = "k1" /\ chans[c].closed
       /\ chans[c].buf # << >> /\ Last(chans[c].buf) = Sentinel("k1")
  /\ Running

\* ---------------------------------------------------------------- C9
\* C9: a step that publishes a sample appends it to the buffer of every
\* observer attached to the monitor of the sample's customer id that holds
\* fewer than 50 samples, leaves a full buffer as it is, and leaves every
\* other channel (observers of other monitors, detached observers) untouched.
C9_BroadcastDropsOnlyWhenFull ==
  [][Len(bus') = Len(bus) + 1 =>
       LET data == Last(bus') IN
         \A c \in Callers :
           IF c \in Attached(data.CustomerID)
             THEN /\ chans'[c].buf = Offered(chans[c].buf, data)
                  /\ chans'[c].closed = chans[c].closed
                  /\ Len(chans'[c].buf) <= ObserverBufferSize
             ELSE chans'[c] = chans[c]]_vars

\* the newest sample is in the channel of a second observer of the monitor
\* and was dropped for the stalled observer, whose buffer is as it was
C9_Witness ==
  /\ bus # << >>
  /\ pc[1] = "stalled" /\ ~chans[1].closed
  /\ chans[1].buf = [i \in 1..ObserverBufferSize |-> Sample("k1", i + 1)]
  /\ activeMonitors["k1"] = 1
  /\ \E c \in Callers :
       /\ c # 1 /\ {1, c} \subseteq monitors[1].Observers
       /\ chans[c].buf # << >> /\ Last(chans[c].buf) = Last(bus)
       /\ Last(bus).CustomerID = "k1"

\* --------------------------------------------------------------- C10
\* C10: whatever the observers' buffers hold, a loop that is reading its
\* stream can take the next frame of the device, publish it and fan it out:
\* the step is never disabled by a full buffer.
C10_FullObserverNeverBlocks ==
  \A m \in Callers :
    (Running /\ loopPc[m] = "stream" /\ frames > 0) =>
      ENABLED processTrafficStream_Sample(m, TRUE)

\* every frame of the device was taken and published although the stalled
\* observer's buffer was full all the time; a second observer got a sample
C10_Witness ==
  /\ pc[1] = "stalled" /\ ~chans[1].closed
  /\ Len(chans[1].buf) = ObserverBufferSize
  /\ frames = 0 /\ Len(bus) = MaxSamples
  /\ \E c \in Callers :
       c # 1 /\ c \in Attached("k1") /\ chans[c].buf # << >>

\* ============================================== sample path, step by step
\* processTrafficStream and publishTrafficData at the grain of their three
\* effects: the receive from trafficChan, the XAdd to the Redis stream (no
\* lock held, its error is dropped) and the fan-out under s.mu.

\* lines 313-327: a frame arrives on trafficChan; a frame without an
\* interface name is skipped, another one is mapped and handed on
processTrafficStream_Take(m, named) ==
  /\ Running
  /\ loopPc[m] = "stream"
  /\ frames > 0
  /\ frames' = frames - 1
  /\ produced' = produced + 1
  /\ takers' = Append(takers, m)
  /\ IF named
       THEN /\ inflight' = [inflight EXCEPT
                              ![m] = Sample(monitors[m].CustomerID, produced + 1)]
            /\ loopPc' = [loopPc EXCEPT ![m] = "publish"]
       ELSE UNCHANGED <<inflight, loopPc>>
  /\ UNCHANGED <<callerVars, cleaned, monitorLocks, lockHolder, activeMonitors,
                 monitors, tornBy, chans, bus, historyVars, panicked>>
  /\ UNCHANGED outerVars

\* lines 378-380 and redis_publisher.go 50-63: XAdd appends the entry or fails
PublishStream_Front(m, ok) ==
  /\ Running
  /\ loopPc[m] = "publish"
  /\ bus' = IF ok THEN <<inflight[m]>> \o bus ELSE bus
  /\ loopPc' = [loopPc EXCEPT ![m] = "fanout"]
  /\ UNCHANGED <<callerVars, cleaned, monitorLocks, lockHolder, activeMonitors,
                 monitors, tornBy, chans, produced, frames, inflight, takers,
                 historyVars, panicked>>
  /\ UNCHANGED outerVars
PublishStream(m, ok) ==
  /\ Running
  /\ loopPc[m] = "publish"
  /\ bus' = IF ok THEN Append(bus, inflight[m]) ELSE bus
  /\ loopPc' = [loopPc EXCEPT ![m] = "fanout"]
  /\ UNCHANGED <<callerVars, cleaned, monitorLocks, lockHolder, activeMonitors,
                 monitors, tornBy, chans, produced, frames, inflight, takers,
                 historyVars, panicked>>
  /\ UNCHANGED outerVars

\* lines 382-394: under s.mu, send to the observers of the monitor registered
\* for data.CustomerID; then the loop selects again
publishTrafficData_Fanout(m) ==
  /\ Running
  /\ loopPc[m] = "fanout"
  /\ LET data == inflight[m]
         cur == activeMonitors[data.CustomerID]
     IN IF cur = NoMonitor
          THEN UNCHANGED <<chans, panicked>>
          ELSE /\ chans' = Broadcast(chans, monitors[cur].Observers, data)
               /\ panicked' = AnyClosed(chans, monitors[cur].Observers)
  /\ inflight' = [inflight EXCEPT ![m] = NoSample]
  /\ loopPc' = [loopPc EXCEPT ![m] = "stream"]
  /\ UNCHANGED <<callerVars, cleaned, monitorLocks, lockHolder, activeMonitors,
                 monitors, tornBy, bus, produced, frames, takers, historyVars>>
  /\ UNCHANGED outerVars

\* the device pushes at least two frames
StreamFrames == MaxSamples + 1

InitFanout ==
  /\ pc = [c \in Callers |-> "idle"]
  /\ key = [c \in Callers |-> "k1"]
  /\ result = [c \in Callers |-> "none"]
  /\ cleaned = [c \in Callers |-> FALSE]
  /\ monitorLocks = {}
  /\ lockHolder = [k \in Keys |-> NoCaller]
  /\ activeMonitors = [k \in Keys |-> NoMonitor]
  /\ monitors = [m \in Callers |-> NilMonitor]
  /\ loopPc = [m \in Callers |-> "none"]
  /\ attempts = [m \in Callers |-> 0]
  /\ tornBy = [m \in Callers |-> "none"]
  /\ chans = [c \in Callers |-> NoChan]
  /\ bus = << >>
  /\ produced = 0
  /\ frames = StreamFrames
  /\ inflight = [m \in Callers |-> NoSample]
  /\ takers = << >>
  /\ panicked = FALSE
  /\ InitOuter

NextFanout ==
  \/ \E c \in Callers : \E k \in Requests(c) : StartMonitoring_Check(c, k)
  \/ \E c \in Callers, cust \in CustomerRows, dev \in DeviceReplies :
       StartMonitoring_Resolve(c, cust, dev)
  \/ \E c \in Callers : addObserver(c)
  \/ \E c \in Callers : ctxDone(c)
  \/ \E m \in Callers : runMonitorLoop_Top(m)
  \/ \E m \in Callers : runMonitorLoop_Check(m)
  \/ \E m \in Callers, ok \in BOOLEAN : MonitorTraffic(m, ok)
  \/ \E m \in Callers, named \in BOOLEAN : processTrafficStream_Take(m, named)
  \/ \E m \in Callers, ok \in BOOLEAN : PublishStream(m, ok)
  \/ \E m \in Callers : publishTrafficData_Fanout(m)
  \/ \E m \in Callers : processTrafficStream_Closed(m)
  \/ \E m \in Callers : processTrafficStream_Done(m)
  \/ \E c \in Callers, o \in WriteOutcomes : StreamCustomerTraffic_Recv(c, o)
  \/ \E c \in Callers : StreamCustomerTraffic_WriteError(c)
  \/ \E c \in Callers : StreamCustomerTraffic_Closed(c)

SpecFanout == InitFanout /\ [][NextFanout]_vars

\* --------------------------------------------------------------- C11
\* frames pushed before Init, the loop that took sample d, the samples of
\* loop m in a queue
FramesBefore == produced - Len(takers)
IsTaken(d) == d.seq > FramesBefore
SourceOf(d) == takers[d.seq - FramesBefore]
FromLoop(q, m) == SelectSeq(q, LAMBDA d : IsTaken(d) /\ SourceOf(d) = m)
Increasing(q) == \A i, j \in 1..Len(q) : i < j => q[i].seq < q[j].seq
Holding(m) == loopPc[m] \in {"publish", "fanout"}

\* C11: the samples of one monitor's loop appear in every observer channel
\* and in the Redis stream in the order in which the loop took them from the
\* device stream, none of them twice; and while a loop holds a sample that
\* is not yet published and fanned out it has taken no later one: the held
\* sample is newer than every sample of the loop in any channel, and newer
\* than every sample of the loop in the Redis stream until it is published.
C11_OrderPreserved ==
  \A m \in Callers :
    /\ Increasing(FromLoop(bus, m))
    /\ \A c \in Callers : Increasing(FromLoop(chans[c].buf, m))
    /\ Holding(m) <=> inflight[m] # NoSample
    /\ Holding(m) =>
         /\ IsTaken(inflight[m]) /\ SourceOf(inflight[m]) = m
         /\ \A c \in Callers : \A i \in 1..Len(FromLoop(chans[c].buf, m)) :
              FromLoop(chans[c].buf, m)[i].seq < inflight[m].seq
         /\ \A i \in 1..Len(FromLoop(bus, m)) :
              /\ FromLoop(bus, m)[i].seq <= inflight[m].seq
              /\ loopPc[m] = "publish" =>
                   FromLoop(bus, m)[i].seq < inflight[m].seq

\* two samples of one loop wait in an observer's channel and are in the Redis
\* stream, in the order taken
C11_Witness ==
  \E m, c \in Callers :
    /\ Len(FromLoop(chans[c].buf, m)) >= 2
    /\ FromLoop(bus, m) = FromLoop(chans[c].buf, m)
    /\ Running

\* --------------------------------------------------------------- C12
\* C12: when the context of caller c ends while c's observer is attached to
\* the registered monitor of its customer id, the step removes c and nothing
\* else from that monitor's observer set, closes c's channel (it was open)
\* without touching its buffer, leaves every other channel as it is, and
\* changes neither the registry nor a counter, a context or a loop.
C12_ContextEndDetachesOneObserver ==
  [][\A c \in Callers :
       ( /\ ~cleaned[c] /\ cleaned'[c]
         /\ c \in Attached(key[c]) )
       => LET m == activeMonitors[key[c]] IN
            /\ monitors' = [monitors EXCEPT ![m].Observers = @ \ {c}]
            /\ ~chans[c].closed
            /\ chans' = [chans EXCEPT ![c].closed = TRUE]
            /\ UNCHANGED <<activeMonitors, loopPc, tornBy, attempts, panicked,
                           callerVars, streamVars>>]_vars

\* the context of the viewer that created the monitor has ended; a second
\* viewer is still attached with an open channel and the stream is running
C12_Witness ==
  \E c, d \in Callers :
    /\ c # d /\ key[c] = key[d]
    /\ activeMonitors[key[c]] = c /\ Live(c) /\ loopPc[c] = "stream"
    /\ cleaned[c] /\ chans[c].closed /\ c \notin monitors[c].Observers
    /\ Subscribed(d) /\ ~cleaned[d] /\ ~chans[d].closed
    /\ monitors[c].Observers = {d} /\ monitors[c].Clients = 2
    /\ Running

\* ================================================================ fairness
\* What the Go scheduler guarantees: a goroutine that can run does run.  A
\* handler that waits for the per-customer mutex gets it when it is free
\* again and again.  What the device, the Redis server and the viewer's
\* socket do is not scheduled by the program: whether a stream closes,
\* whether a frame arrives, whether a write returns.
HandlerStep(c) ==
  \/ \E o \in WriteOutcomes : StreamCustomerTraffic_Recv(c, o)
  \/ StreamCustomerTraffic_WriteError(c)
Fairness ==
  /\ \A c \in Callers :
       /\ WF_vars(\E cust \in CustomerRows, dev \in DeviceReplies :
                    StartMonitoring_Resolve(c, cust, dev))
       /\ WF_vars(addObserver(c))
       /\ WF_vars(HandlerStep(c))
       /\ SF_vars(StreamCustomerTraffic_Closed(c))
  /\ \A m \in Callers :
       /\ WF_vars(runMonitorLoop_Top(m))
       /\ WF_vars(runMonitorLoop_Check(m))
       /\ WF_vars(\E ok \in BOOLEAN : MonitorTraffic(m, ok))
       /\ WF_vars(processTrafficStream_Done(m))

SpecFair == Init /\ [][Next]_vars /\ Fairness

\* --------------------------------------------------------------- C13
\* C13 as stated: once the context that a caller passed to StartMonitoring
\* has ended, the StopMonitoring of that subscription eventually runs.
C13_Original ==
  \A c \in Callers :
    (cleaned[c] /\ result[c] = "chan") ~> (pc[c] = "done")

\* ------------------------------------------------- the viewer's socket
\* part_005 lines 90-96: the read goroutine sees the viewer's connection
\* close (ReadMessage returns an error) and returns; it signals nobody
StreamCustomerTraffic_ReadError(c) ==
  /\ Running
  /\ pc[c] \in {"streaming", "stalled"}
  /\ c \notin gone
  /\ gone' = gone \cup {c}
  /\ UNCHANGED <<linkVars, consumerVars, hubVars, pingVars,
    wireVars, probeVars>>
  /\ UNCHANGED <<callerVars, cleaned, monitorLocks, lockHolder, serviceVars,
                 streamVars, historyVars, panicked>>

\* lines 101-106: a write that was blocked on a socket that has closed
\* returns an error, the loop breaks and the deferred StopMonitoring runs
StreamCustomerTraffic_WriteUnblocked(c) ==
  /\ Running
  /\ pc[c] = "stalled"
  /\ c \in gone
  /\ KeyLockFree(key[c])
  /\ StopMonitoring(key[c], chans)
  /\ pc' = [pc EXCEPT ![c] = "done"]
  /\ UNCHANGED <<key, result, cleaned, monitorLocks, lockHolder, loopPc,
                 streamVars, historyVars>>
  /\ UNCHANGED outerVars

\* The service with viewers that hang up: a write to a closed socket fails
NextViewer ==
  \/ \E c \in Callers : \E k \in Requests(c) : StartMonitoring_Check(c, k)
  \/ \E c \in Callers, cust \in CustomerRows, dev \in DeviceReplies :
       StartMonitoring_Resolve(c, cust, dev)
  \/ \E c \in Callers : addObserver(c)
  \/ \E c \in Callers : ctxDone(c)
  \/ \E m \in Callers : runMonitorLoop_Top(m)
  \/ \E m \in Callers : runMonitorLoop_Check(m)
  \/ \E m \in Callers, ok \in BOOLEAN : MonitorTraffic(m, ok)
  \/ \E m \in Callers, named \in BOOLEAN : processTrafficStream_Sample(m, named)
  \/ \E m \in Callers : processTrafficStream_Closed(m)
  \/ \E m \in Callers : processTrafficStream_Done(m)
  \/ \E c \in Callers \ gone, o \in WriteOutcomes :
       StreamCustomerTraffic_Recv(c, o)
  \/ \E c \in Callers : StreamCustomerTraffic_WriteError(c)
  \/ \E c \in Callers : StreamCustomerTraffic_Closed(c)
  \/ \E c \in Callers : StreamCustomerTraffic_ReadError(c)
  \/ \E c \in Callers : StreamCustomerTraffic_WriteUnblocked(c)

SpecViewer ==
  /\ Init
  /\ [][NextViewer]_vars
  /\ Fairness
  /\ \A c \in Callers : WF_vars(StreamCustomerTraffic_WriteUnblocked(c))

\* --------------------------------------------------------------- C14
\* C14 as stated: once a subscribed viewer's connection has closed, the
\* handler's StopMonitoring for that viewer eventually runs, whether or not
\* another sample arrives for the customer.
C14_Original ==
  \A c \in Callers : (c \in gone) ~> (pc[c] = "done")

\* =====================================================================
\* The device link: Client (part_001), MonitorTraffic (part_002) and
\* StreamPing (part_000).  Tasks are the goroutines that share the one Client.
\* =====================================================================
coreVars ==
  <<callerVars, cleaned, monitorLocks, lockHolder, serviceVars, streamVars,
    historyVars, panicked, viewerVars, consumerVars, hubVars, pingVars,
    wireVars, probeVars>>

\* Client.Run, or the ListenArgsContext of MonitorTraffic and StreamPing
Ops == {"Run", "ListenArgsContext"}

\* error texts, word by word
ErrEOF == <<"EOF">>
ErrBrokenPipe == <<"write", "tcp", "broken", "pipe">>
ErrClosedConn == <<"use", "of", "closed", "network", "connection">>
ErrLoopEnded == <<"async", "loop", "has", "ended">>
ErrNoSuchCommand == <<"no", "such", "command">>
\* part_001 line 66: what connect returns when the dial fails
ErrConnect == <<"failed", "to", "connect", "to", "MikroTik">>
ErrorMessages ==
  {ErrEOF, ErrBrokenPipe, ErrClosedConn, ErrLoopEnded, ErrNoSuchCommand}
Outcomes == {NoError} \cup ErrorMessages
\* what a command gets on a connection that this process has closed
ClosedConnErrors == {ErrClosedConn, ErrLoopEnded}

\* strings.Contains
Contains(msg, sig) ==
  \E i \in 0..(Len(msg) - Len(sig)) : SubSeq(msg, i + 1, i + Len(sig)) = sig

isConnectionError_Any(err) == err # NoError

\* part_001 lines 100-107
isConnectionError(err) ==
  \/ Contains(err, <<"loop", "has", "ended">>)
  \/ Contains(err, <<"closed", "network", "connection">>)
  \/ Contains(err, <<"broken", "pipe">>)
  \/ Contains(err, <<"use", "of", "closed", "network", "connection">>)
  \/ Contains(err, <<"EOF">>)

\* part_002 lines 59-81, part_000 lines 60-81: the channel and its goroutine
OpenedStream(c) ==
  [state |-> "select", conn |-> c, closed |-> FALSE, ctx |-> FALSE,
   consuming |-> TRUE, left |-> MaxSamples]

\* what the device answers to a command sent on connection c
Answers(c) == IF conns[c].open THEN Outcomes ELSE ClosedConnErrors

\* part_001 line 86, part_002 lines 39-42, part_000 line 45: the command is
\* issued on the connection the Client points to
Run_First(t, op, r) ==
  /\ call[t].pc = "idle"
  /\ r \in Answers(linkClient)
  /\ call' = [call EXCEPT ![t] =
       [@ EXCEPT !.op = op, !.issued = 1, !.err = r, !.last = r,
                 !.res = IF isConnectionError(r) THEN NoError ELSE r,
                 !.pc = IF isConnectionError(r) THEN "reconnect"
                                                ELSE "returned"]]
  /\ stream' = IF r = NoError /\ op # "Run"
                 THEN [stream EXCEPT ![t] = OpenedStream(linkClient)]
                 ELSE stream
  /\ UNCHANGED <<linkClient, conns, coreVars>>

Reconnect_Close_KeepOpen(t) ==
  /\ call[t].pc = "reconnect"
  /\ call' = [call EXCEPT ![t].pc = "connect", ![t].reconnects = @ + 1]
  /\ UNCHANGED <<linkClient, conns, stream, coreVars>>

\* part_001 lines 78-80: Reconnect closes the connection the Client points to
Reconnect_Close(t) ==
  /\ call[t].pc = "reconnect"
  /\ conns' = [conns EXCEPT ![linkClient].open = FALSE]
  /\ call' = [call EXCEPT ![t].pc = "connect", ![t].reconnects = @ + 1]
  /\ UNCHANGED <<linkClient, stream, coreVars>>

Reconnect_connect_ItsError(t, ok) ==
  /\ call[t].pc = "connect"
  /\ IF ok
       THEN /\ conns' = Append(conns, NewConn)
            /\ linkClient' = Len(conns) + 1
            /\ call' = [call EXCEPT ![t].pc = "retry", ![t].dials = @ + 1]
       ELSE /\ call' = [call EXCEPT ![t].pc = "returned",
                                    ![t].recErr = ErrConnect,
                                    ![t].res = ErrConnect]
            /\ UNCHANGED <<linkClient, conns>>
  /\ UNCHANGED <<stream, coreVars>>

\* part_001 lines 38-74 and 81, then lines 90-95: connect dials; on success
\* the Client points to the new connection, on failure recErr is dropped and
\* the caller gets the error of its command
Reconnect_connect(t, ok) ==
  /\ call[t].pc = "connect"
  /\ IF ok
       THEN /\ conns' = Append(conns, NewConn)
            /\ linkClient' = Len(conns) + 1
            /\ call' = [call EXCEPT ![t].pc = "retry", ![t].dials = @ + 1]
       ELSE /\ call' = [call EXCEPT ![t].pc = "returned",
                                    ![t].recErr = ErrConnect,
                                    ![t].res = call[t].err]
            /\ UNCHANGED <<linkClient, conns>>
  /\ UNCHANGED <<stream, coreVars>>

Run_Retry_Again(t, r) ==
  /\ call[t].pc = "retry"
  /\ r \in Answers(linkClient)
  /\ call' = [call EXCEPT ![t] =
       [@ EXCEPT !.issued = @ + 1, !.last = r,
                 !.res = IF isConnectionError(r) THEN NoError ELSE r,
                 !.pc = IF isConnectionError(r) /\ call[t].issued < 3
                          THEN "reconnect" ELSE "returned"]]
  /\ stream' = IF r = NoError /\ call[t].op # "Run"
                 THEN [stream EXCEPT ![t] = OpenedStream(linkClient)]
                 ELSE stream
  /\ UNCHANGED <<linkClient, conns, coreVars>>

\* part_001 line 92, part_002 lines 48-57, part_000 lines 51-58: the command
\* is issued once more and whatever it gives is returned
Run_Retry(t, r) ==
  /\ call[t].pc = "retry"
  /\ r \in Answers(linkClient)
  /\ call' = [call EXCEPT ![t] =
       [@ EXCEPT !.issued = @ + 1, !.last = r, !.res = r, !.pc = "returned"]]
  /\ stream' = IF r = NoError /\ call[t].op # "Run"
                 THEN [stream EXCEPT ![t] = OpenedStream(linkClient)]
                 ELSE stream
  /\ UNCHANGED <<linkClient, conns, coreVars>>

\* the caller cancels the context it gave to MonitorTraffic / StreamPing
Cancel(t) ==
  /\ stream[t].state # "none"
  /\ ~stream[t].ctx
  /\ stream' = [stream EXCEPT ![t].ctx = TRUE]
  /\ UNCHANGED <<linkClient, conns, call, coreVars>>

\* the consumer stops receiving: part_006 lines 309-312 (context done) or
\* ping_handler.go lines 183-185 (a write to the viewer failed)
Consumer_Stop(t) ==
  /\ stream[t].state # "none"
  /\ stream[t].consuming
  /\ stream' = [stream EXCEPT ![t].consuming = FALSE]
  /\ UNCHANGED <<linkClient, conns, call, coreVars>>

\* part_002 lines 66-67 and 62: the select takes ctx.Done()
stream_ctxDone(t) ==
  /\ stream[t].state = "select"
  /\ stream[t].ctx
  /\ stream' = [stream EXCEPT ![t].state = "ended", ![t].closed = TRUE]
  /\ UNCHANGED <<linkClient, conns, call, coreVars>>

\* part_002 lines 68-76: the select takes a frame of the reply channel; a
\* frame without a map is skipped, any other is sent on out
stream_Reply(t, mapped) ==
  /\ stream[t].state = "select"
  /\ stream[t].left > 0
  /\ stream' = [stream EXCEPT ![t].left = @ - 1,
                              ![t].state = IF mapped THEN "send" ELSE "select"]
  /\ UNCHANGED <<linkClient, conns, call, coreVars>>

\* The reply channel of a listen is closed once its connection is closed or
\* its context is done (go-routeros)
ReplyClosed(t) == ~conns[stream[t].conn].open \/ stream[t].ctx

stream_ReplyClosed_NoClose(t) ==
  /\ stream[t].state = "select"
  /\ ReplyClosed(t)
  /\ stream' = [stream EXCEPT ![t].state = "ended"]
  /\ UNCHANGED <<linkClient, conns, call, coreVars>>

\* part_002 lines 68-71 and 62: the reply channel is closed
stream_ReplyClosed(t) ==
  /\ stream[t].state = "select"
  /\ ReplyClosed(t)
  /\ stream' = [stream EXCEPT ![t].state = "ended", ![t].closed = TRUE]
  /\ UNCHANGED <<linkClient, conns, call, coreVars>>

\* part_002 line 76: out is unbuffered, the send completes when the consumer
\* receives
stream_Send(t) ==
  /\ stream[t].state = "send"
  /\ stream[t].consuming
  /\ stream' = [stream EXCEPT ![t].state = "select"]
  /\ UNCHANGED <<linkClient, conns, call, coreVars>>

\* the calls alone
NextLink ==
  \/ \E t \in Tasks, op \in Ops, r \in Outcomes : Run_First(t, op, r)
  \/ \E t \in Tasks : Reconnect_Close(t)
  \/ \E t \in Tasks, ok \in BOOLEAN : Reconnect_connect(t, ok)
  \/ \E t \in Tasks, r \in Outcomes : Run_Retry(t, r)

SpecLink == Init /\ [][NextLink]_vars

\* the calls and the streams they open
NextStreams ==
  \/ \E t \in Tasks, op \in Ops, r \in Outcomes : Run_First(t, op, r)
  \/ \E t \in Tasks : Reconnect_Close(t)
  \/ \E t \in Tasks, ok \in BOOLEAN : Reconnect_connect(t, ok)
  \/ \E t \in Tasks, r \in Outcomes : Run_Retry(t, r)
  \/ \E t \in Tasks : Cancel(t)
  \/ \E t \in Tasks : Consumer_Stop(t)
  \/ \E t \in Tasks : stream_ctxDone(t)
  \/ \E t \in Tasks, mapped \in BOOLEAN : stream_Reply(t, mapped)
  \/ \E t \in Tasks : stream_ReplyClosed(t)
  \/ \E t \in Tasks : stream_Send(t)

\* --------------------------------------------------------------- C15
\* C15: a call whose command failed with a transient error reconnects once
\* (one Close, one dial) and, the dial having succeeded, issues the command
\* once more and returns what that second issue gave, success or error; no
\* call ever issues its command more than twice or reconnects more than once.
C15_ReconnectOnceRetryOnce ==
  \A t \in Tasks :
    /\ call[t].issued <= 2
    /\ call[t].reconnects <= 1
    /\ call[t].dials <= call[t].reconnects
    /\ (call[t].pc = "returned" /\ isConnectionError(call[t].err)) =>
         /\ call[t].reconnects = 1
         /\ call[t].issued = 1 + call[t].dials
         /\ call[t].dials = 1 => call[t].res = call[t].last

C15_Witness ==
  \E t \in Tasks :
    /\ call[t].pc = "returned"
    /\ call[t].err = ErrBrokenPipe
    /\ call[t].dials = 1
    /\ call[t].issued = 2
    /\ call[t].res = ErrEOF

\* --------------------------------------------------------------- C16
\* the signatures the claim lists
TransientSignatures ==
  {<<"loop", "has", "ended">>, <<"closed", "network", "connection">>,
   <<"broken", "pipe">>, <<"EOF">>}
MatchesNone(err) ==
  err # NoError /\ \A sig \in TransientSignatures : ~Contains(err, sig)

\* C16: the step in which a command fails with an error that contains none
\* of the transient signatures returns that very error to the caller, with
\* one issue and no reconnect, and leaves the Client's connection and every
\* connection as it was.
C16_PermanentErrorReturnedAsIs ==
  [][\A t \in Tasks :
       (call[t].pc = "idle" /\ call'[t].pc # "idle"
          /\ MatchesNone(call'[t].err)) =>
         /\ call'[t].pc = "returned"
         /\ call'[t].res = call'[t].err
         /\ call'[t].issued = 1
         /\ call'[t].reconnects = 0
         /\ linkClient' = linkClient
         /\ conns' = conns]_vars

C16_Witness ==
  \E t \in Tasks :
    /\ call[t].pc = "returned"
    /\ call[t].err = ErrNoSuchCommand
    /\ call[t].res = ErrNoSuchCommand
    /\ call[t].issued = 1

\* ------------------------------------------------- fairness of the link
\* Goroutines that can run do run: a call goes on to its Reconnect and its
\* retry, a stream goroutine takes a select case that is ready and completes
\* a send whose receiver is waiting.  When the device pushes a frame, when a
\* caller cancels and when a consumer stops is not up to the scheduler.
FairnessLink ==
  \A t \in Tasks :
    /\ WF_vars(Reconnect_Close(t))
    /\ WF_vars(\E ok \in BOOLEAN : Reconnect_connect(t, ok))
    /\ WF_vars(\E r \in Outcomes : Run_Retry(t, r))
    /\ WF_vars(stream_ctxDone(t))
    /\ WF_vars(stream_ReplyClosed(t))
    /\ WF_vars(stream_Send(t))

SpecLinkFair == Init /\ [][NextStreams]_vars /\ FairnessLink

\* --------------------------------------------------------------- C38
\* the reconnect that followed the failed command of task t has failed
ReconnectFailed(t) == call[t].pc = "returned" /\ call[t].recErr # NoError

\* C38: when the reconnect fails the command has been issued once only, no
\* stream was opened, and the caller gets the error of that command, which
\* is a transient one and not the error of the reconnect.
C38_FailedReconnectGivesFirstError ==
  \A t \in Tasks :
    ReconnectFailed(t) =>
      /\ call[t].issued = 1
      /\ call[t].dials = 0
      /\ stream[t].state = "none"
      /\ call[t].res = call[t].err
      /\ call[t].res # NoError
      /\ ~MatchesNone(call[t].res)
      /\ call[t].res # call[t].recErr

C38_Witness ==
  \E t, u \in Tasks :
    /\ ReconnectFailed(t)
    /\ call[t].op = "ListenArgsContext"
    /\ ReconnectFailed(u)
    /\ call[u].op = "Run"

\* --------------------------------------------------------------- C17
\* C17 as stated: once the context of a stream is done or the connection
\* that carries its reply channel is closed, the channel that MonitorTraffic /
\* StreamPing returned is eventually closed, whether or not its consumer
\* still receives.
C17_Original ==
  \A t \in Tasks :
    (stream[t].state # "none" /\ ReplyClosed(t)) ~> stream[t].closed

\* --------------------------------------------------------------- C18
\* the connection under the stream of task t has been closed, which only
\* the Reconnect of another call does
CutByReconnect(t) ==
  /\ stream[t].state # "none"
  /\ ~conns[stream[t].conn].open

Quiescent == \A t \in Tasks : call[t].pc \in {"idle", "returned"}
OpenConns == {i \in 1..Len(conns) : conns[i].open}

\* C19 as stated: whatever the interleaving of the callers, once their calls
\* have returned the only connection that may be open is the one the Client
\* points to; every connection it has replaced is closed.
C19_Original == Quiescent => OpenConns \subseteq {linkClient}

\* =====================================================================
\* The bus consumer (redis_stream_consumer.go) and the broadcaster (main.go)
\* =====================================================================
nonConsumerVars ==
  <<callerVars, cleaned, monitorLocks, lockHolder, serviceVars, streamVars,
    historyVars, panicked, viewerVars, linkVars, hubVars, pingVars,
    wireVars, probeVars>>

\* entries that producers append while the consumer is observed
BusEntries == MaxSamples + 2
\* XReadGroupArgs.Count, line 62
BatchCount == 10
\* a payload is a JSON text, a text that is not JSON, or the entry has no
\* string field "data"
Payloads == {"json", "garbage", "nodata"}

Min(a, b) == IF a < b THEN a ELSE b
SeqRange(q) == {q[i] : i \in 1..Len(q)}
AfterMessage(rest) == IF rest = << >> THEN "read" ELSE "msg"

\* redis_publisher.go lines 50-63 (or any other writer of the stream)
XAdd(p) ==
  /\ Len(entries) < BusEntries
  /\ entries' = Append(entries, p)
  /\ UNCHANGED <<lastDelivered, pel, acked, batch, cpc, handed, hubPc,
                 nonConsumerVars>>

\* lines 57-63 and 75: XReadGroup with ">" delivers the entries after the
\* last delivered one, at most Count of them, and puts them on the pending
\* list
Start_XReadGroup ==
  /\ cpc = "read"
  /\ Len(entries) > lastDelivered
  /\ LET n == Min(BatchCount, Len(entries) - lastDelivered) IN
       /\ batch' = [i \in 1..n |-> lastDelivered + i]
       /\ pel' = pel \cup {lastDelivered + i : i \in 1..n}
       /\ lastDelivered' = lastDelivered + n
  /\ cpc' = "msg"
  /\ UNCHANGED <<entries, acked, handed, hubPc, nonConsumerVars>>

\* lines 79-85: the data is not JSON; `continue` goes to the next message
Start_Invalid ==
  /\ cpc = "msg"
  /\ entries[Head(batch)] = "garbage"
  /\ batch' = Tail(batch)
  /\ cpc' = AfterMessage(Tail(batch))
  /\ UNCHANGED <<entries, lastDelivered, pel, acked, handed, hubPc,
                 nonConsumerVars>>

Start_Broadcast_NoWait ==
  /\ cpc = "msg"
  /\ entries[Head(batch)] = "json"
  /\ IF hubPc = "recv"
       THEN /\ handed' = Append(handed, Head(batch))
            /\ hubPc' = "write"
       ELSE UNCHANGED <<handed, hubPc>>
  /\ cpc' = "ack"
  /\ UNCHANGED <<entries, lastDelivered, pel, acked, batch, nonConsumerVars>>

\* line 88 and main.go line 51: the send on the unbuffered broadcast channel
\* completes when the broadcaster receives
Start_Broadcast ==
  /\ cpc = "msg"
  /\ entries[Head(batch)] = "json"
  /\ hubPc = "recv"
  /\ handed' = Append(handed, Head(batch))
  /\ hubPc' = "write"
  /\ cpc' = "ack"
  /\ UNCHANGED <<entries, lastDelivered, pel, acked, batch, nonConsumerVars>>

\* line 78: the entry has no string field "data"; control falls to the XAck
Start_NoData ==
  /\ cpc = "msg"
  /\ entries[Head(batch)] = "nodata"
  /\ cpc' = "ack"
  /\ UNCHANGED <<entries, lastDelivered, pel, acked, batch, handed, hubPc,
                 nonConsumerVars>>

\* line 92: XAck; its error is not looked at
Start_XAck(ok) ==
  /\ cpc = "ack"
  /\ IF ok
       THEN /\ acked' = acked \cup {Head(batch)}
            /\ pel' = pel \ {Head(batch)}
       ELSE UNCHANGED <<acked, pel>>
  /\ batch' = Tail(batch)
  /\ cpc' = AfterMessage(Tail(batch))
  /\ UNCHANGED <<entries, lastDelivered, handed, hubPc, nonConsumerVars>>

\* main.go lines 53-60: the broadcaster has written the message to every
\* client and receives again
broadcaster_Write ==
  /\ hubPc = "write"
  /\ hubPc' = "recv"
  /\ UNCHANGED <<entries, lastDelivered, pel, acked, batch, cpc, handed,
                 nonConsumerVars>>

NextBus ==
  \/ \E p \in Payloads : XAdd(p)
  \/ Start_XReadGroup
  \/ Start_Invalid
  \/ Start_Broadcast
  \/ Start_NoData
  \/ \E ok \in BOOLEAN : Start_XAck(ok)
  \/ broadcaster_Write

SpecBus == Init /\ [][NextBus]_vars

\* --------------------------------------------------------------- C20
\* C20: every acknowledged entry whose payload is valid JSON has been handed
\* to the broadcaster before: the consumer never acknowledges such an entry
\* before or without its hand-off.
C20_AckAfterHandOff ==
  \A id \in acked : entries[id] = "json" => id \in SeqRange(handed)

C20_Witness ==
  \E id \in acked :
    /\ entries[id] = "json"
    /\ id \in SeqRange(handed)
    /\ \E other \in pel : entries[other] = "json" /\ other \in SeqRange(handed)

\* ------------------------------------------- a consumer that is restarted
\* The process is killed and started again: Start begins anew (lines 46-53;
\* the group exists, so XGroupCreateMkStream changes nothing) and reads with
\* ">" as before; the stream, the pending list and the acknowledgements live
\* in Redis and survive.
Start_Restart ==
  /\ cpc # "read"
  /\ batch' = << >>
  /\ cpc' = "read"
  /\ hubPc' = "recv"
  /\ UNCHANGED <<entries, lastDelivered, pel, acked, handed, nonConsumerVars>>

NextBusRestart ==
  \/ \E p \in Payloads : XAdd(p)
  \/ Start_XReadGroup
  \/ Start_Invalid
  \/ Start_Broadcast
  \/ Start_NoData
  \/ \E ok \in BOOLEAN : Start_XAck(ok)
  \/ broadcaster_Write
  \/ Start_Restart

\* The consumer and the broadcaster are goroutines that run when they can;
\* when an entry is appended and when the process is killed is not up to them.
FairnessBus ==
  /\ WF_vars(Start_XReadGroup)
  /\ WF_vars(Start_Invalid)
  /\ WF_vars(Start_Broadcast)
  /\ WF_vars(Start_NoData)
  /\ WF_vars(\E ok \in BOOLEAN : Start_XAck(ok))
  /\ WF_vars(broadcaster_Write)

SpecBusRestart == Init /\ [][NextBusRestart]_vars /\ FairnessBus

\* --------------------------------------------------------------- C21
\* the entry is pending in the group, valid, not yet handed to the
\* broadcaster and no longer in the hands of the consumer: the consumer was
\* killed between reading it and acknowledging it
LostByCrash(id) ==
  /\ id \in pel
  /\ entries[id] = "json"
  /\ id \notin SeqRange(handed)
  /\ id \notin SeqRange(batch)

\* C21 as stated: an entry that the consumer had read and not acknowledged
\* when it was killed is, after the restart, delivered again and handed to
\* the broadcaster.
C21_Original ==
  \A id \in 1..BusEntries : LostByCrash(id) ~> (id \in SeqRange(handed))

\* --------------------------------------------------------------- C22
\* the consumer has gone past entry id of a batch it read
Processed(id) == id \in 1..lastDelivered /\ id \notin SeqRange(batch)

\* C22 as stated: an entry whose data is not valid JSON is, once the consumer
\* has gone past it, acknowledged and no longer pending, and it was not
\* handed to the broadcaster.
C22_Original ==
  \A id \in 1..lastDelivered :
    (entries[id] = "garbage" /\ Processed(id)) =>
      /\ id \in acked
      /\ id \notin pel
      /\ id \notin SeqRange(handed)

\* =====================================================================
\* The hub: WebSocketHandler (internal/handlers/customer_handler.go)
\* =====================================================================
nonHubVars ==
  <<callerVars, cleaned, monitorLocks, lockHolder, serviceVars, streamVars,
    historyVars, panicked, viewerVars, linkVars, pingVars, wireVars,
    probeVars,
    entries, lastDelivered, pel, acked, batch, cpc>>

\* clientsMu is free for a writer: the broadcaster holds the read lock from
\* line 236 to line 250, except between lines 243 and 247
ClientsMuFree == ~rlock

RUnlockOnFailure_Keep(ok) == rlock

\* line 243: after a failed write the broadcaster gives up its read lock
\* before it asks for the write lock
RUnlockOnFailure(ok) == IF ok THEN rlock ELSE FALSE

\* lines 202-215: HandleWS registers the connection under the write lock.  An
\* entry put into a map while a range loop over it is under way may or may
\* not be produced by that loop.
HandleWS_Join(c, produced_) ==
  /\ c \notin joined
  /\ ClientsMuFree
  /\ clients' = clients \cup {c}
  /\ joined' = joined \cup {c}
  /\ todo' = IF hubPc = "evict" /\ produced_ THEN todo \cup {c} ELSE todo
  /\ UNCHANGED <<left, written, snapshot, failed, current, rlock, handed,
                 hubPc, nonHubVars>>

HandleWS_Leave_NoLock(c) ==
  /\ c \in joined
  /\ c \notin left
  /\ left' = left \cup {c}
  /\ clients' = clients \ {c}
  /\ todo' = todo \ {c}
  /\ UNCHANGED <<joined, written, snapshot, failed, current, rlock, handed,
                 hubPc, nonHubVars>>

\* lines 217-229: the read loop ends (the viewer hung up, or the broadcaster
\* closed the connection after a failed write) and the deferred function
\* deletes the connection under the write lock; deleting a key that is not
\* in the map does nothing.  An entry removed before a range loop has reached
\* it is not produced.
HandleWS_Leave(c) ==
  /\ c \in joined
  /\ c \notin left
  /\ ClientsMuFree
  /\ left' = left \cup {c}
  /\ clients' = clients \ {c}
  /\ todo' = todo \ {c}
  /\ UNCHANGED <<joined, written, snapshot, failed, current, rlock, handed,
                 hubPc, nonHubVars>>

\* line 234: a sender hands the next message to the broadcaster
Broadcaster_Recv ==
  /\ hubPc = "recv"
  /\ Len(handed) < BusEntries
  /\ handed' = Append(handed, Len(handed) + 1)
  /\ hubPc' = "write"
  /\ UNCHANGED <<hubVars, nonHubVars>>

Broadcaster_RLock_First ==
  /\ hubPc = "write"
  /\ hubPc' = "range"
  /\ current' = Head(handed)
  /\ todo' = clients
  /\ snapshot' = clients
  /\ rlock' = TRUE
  /\ UNCHANGED <<clients, joined, left, written, failed, handed, nonHubVars>>

\* lines 236-237: the read lock is taken and the range loop begins
Broadcaster_RLock ==
  /\ hubPc = "write"
  /\ hubPc' = "range"
  /\ current' = Last(handed)
  /\ todo' = clients
  /\ snapshot' = clients
  /\ rlock' = TRUE
  /\ UNCHANGED <<clients, joined, left, written, failed, handed, nonHubVars>>

Broadcaster_WriteMessage_Abort(c, ok) ==
  /\ hubPc = "range"
  /\ c \in todo
  /\ IF ok
       THEN /\ written' = [written EXCEPT ![c] = Append(@, current)]
            /\ todo' = todo \ {c}
            /\ UNCHANGED <<failed, hubPc>>
       ELSE /\ failed' = failed \cup {c}
            /\ todo' = {}
            /\ hubPc' = "evict"
            /\ UNCHANGED written
  /\ rlock' = RUnlockOnFailure(ok)
  /\ UNCHANGED <<clients, joined, left, snapshot, current, handed,
                 nonHubVars>>

\* lines 237-243: the loop reaches connection c and writes the message to
\* it; when the write fails the connection is closed and the read lock given
\* up
Broadcaster_WriteMessage(c, ok) ==
  /\ hubPc = "range"
  /\ c \in todo
  /\ todo' = todo \ {c}
  /\ IF ok
       THEN /\ written' = [written EXCEPT ![c] = Append(@, current)]
            /\ UNCHANGED <<failed, hubPc>>
       ELSE /\ failed' = failed \cup {c}
            /\ hubPc' = "evict"
            /\ UNCHANGED written
  /\ rlock' = RUnlockOnFailure(ok)
  /\ UNCHANGED <<clients, joined, left, snapshot, current, handed,
                 nonHubVars>>

\* lines 244-247: under the write lock the connection is deleted; the read
\* lock is taken again and the loop goes on
Broadcaster_Evict ==
  /\ hubPc = "evict"
  /\ ~rlock
  /\ clients' = clients \ failed
  /\ rlock' = TRUE
  /\ hubPc' = "range"
  /\ UNCHANGED <<joined, left, todo, written, snapshot, failed, current,
                 handed, nonHubVars>>

\* line 250: the loop has reached every connection; the read lock is given up
Broadcaster_RUnlock ==
  /\ hubPc = "range"
  /\ todo = {}
  /\ hubPc' = "recv"
  /\ rlock' = FALSE
  /\ UNCHANGED <<clients, joined, left, todo, written, snapshot, failed,
                 current, handed, nonHubVars>>

NextHub ==
  \/ \E c \in Conns, p \in BOOLEAN : HandleWS_Join(c, p)
  \/ \E c \in Conns : HandleWS_Leave(c)
  \/ Broadcaster_Recv
  \/ Broadcaster_RLock
  \/ \E c \in Conns, ok \in BOOLEAN : Broadcaster_WriteMessage(c, ok)
  \/ Broadcaster_Evict
  \/ Broadcaster_RUnlock

SpecHub == Init /\ [][NextHub]_vars

\* --------------------------------------------------------------- C23
\* connection c has got the message of the running (or last) broadcast
GotCurrent(c) == written[c] # << >> /\ Last(written[c]) = current

\* C23: a connection whose write failed is in the set only until the
\* broadcaster has deleted it, which it does before it goes on with the
\* loop, hence before the next message; and every connection that was
\* registered when the broadcast began and has not left is still to be
\* reached by the loop, or has got the message, or is the one whose write
\* failed: a failed write does not end the loop.
C23_FailedWriteEvictsAndGoesOn ==
  /\ hubPc # "evict" => failed \cap clients = {}
  /\ \A c \in snapshot \cap clients : c \in todo \/ c \in failed \/ GotCurrent(c)

C23_Witness ==
  /\ hubPc = "recv"
  /\ failed \cap snapshot # {}
  /\ \E c \in snapshot \cap clients : GotCurrent(c)

\* --------------------------------------------------------------- C24
\* where message x stands in the sequence of hand-offs
PosIn(q, x) == CHOOSE i \in 1..Len(q) : q[i] = x

\* C24: the messages written to a connection are messages that were handed
\* to the broadcaster, each at most once and in the order of the hand-offs.
C24_PerConnectionOrder ==
  \A c \in Conns :
    /\ \A i \in 1..Len(written[c]) : written[c][i] \in SeqRange(handed)
    /\ \A i, j \in 1..Len(written[c]) :
         i < j => PosIn(handed, written[c][i]) < PosIn(handed, written[c][j])

C24_Witness ==
  \E c, d \in Conns :
    /\ Len(written[c]) >= 2
    /\ Len(written[d]) >= 1
    /\ written[d] # written[c]

\* --------------------------------------------------------------- C39
\* the broadcaster takes a step when it can; a write returns
FairnessHub ==
  /\ WF_vars(Broadcaster_RLock)
  /\ WF_vars(\E c \in Conns, ok \in BOOLEAN : Broadcaster_WriteMessage(c, ok))
  /\ WF_vars(Broadcaster_Evict)
  /\ WF_vars(Broadcaster_RUnlock)

SpecHubFair == Init /\ [][NextHub]_vars /\ FairnessHub

Evicted == IF hubPc = "evict" THEN failed \ clients ELSE failed

\* the step is a deferred delete for a connection that is no longer in the map
SecondRemoval ==
  /\ left' # left
  /\ (left' \ left) \cap clients = {}

\* C31: the connection set is the set of the connections that joined and
\* have neither left nor been evicted; while the broadcaster is between a
\* failed write and its delete at most that one connection is in the set and
\* in `failed`; the set changes only in a step that clientsMu admits as a
\* writer; and a delete for a connection that was evicted changes nothing.
C31_SetIsJoinedMinusGone ==
  /\ [](/\ clients = joined \ (left \cup Evicted)
        /\ hubPc # "evict" => clients \cap failed = {}
        /\ Cardinality(clients \cap failed) <= 1)
  /\ [][clients' # clients => ClientsMuFree]_vars
  /\ [][SecondRemoval => clients' = clients /\ written' = written]_vars

\* a connection was evicted after a failed write and its HandleWS has then
\* run its delete, while another connection is still registered
C31_Witness ==
  /\ \E c \in Conns : c \in failed /\ c \in left /\ c \notin clients
  /\ clients # {}
  /\ hubPc = "recv"

\* =====================================================================
\* The ping session: PingHandler.PingCustomerStream (ping_handler.go)
\* =====================================================================
nonPingVars ==
  <<callerVars, cleaned, monitorLocks, lockHolder, serviceVars, streamVars,
    historyVars, panicked, viewerVars, linkVars, consumerVars, hubVars,
    wireVars, probeVars>>

\* results a session takes before its stream ends
MaxProbes == MaxSamples + 2

\* a PingResponse, by which of its fields are not the empty string
Responses ==
  [Seq : BOOLEAN, Received : BOOLEAN, Status : BOOLEAN, Time : BOOLEAN]

\* lines 169-176
CountsSent(resp) == resp.Seq
CountsReceived(resp) ==
  resp.Seq /\ (resp.Received \/ ~resp.Status \/ resp.Time)

\* fmt.Sprintf("%.0f", x) for x = num / den: the nearest whole number, a tie
\* going to the even one
RoundHalfEven(num, den) ==
  LET q == num \div den
      r == num % den
  IN  IF 2 * r < den THEN q
      ELSE IF 2 * r > den THEN q + 1
      ELSE IF q % 2 = 0 THEN q ELSE q + 1

\* lines 189-197
LossPercent(sent, received) ==
  IF sent > 0 THEN RoundHalfEven((sent - received) * 100, sent) ELSE 100

Ping_Open_ThenSummary(ok) ==
  /\ session.pc = "start"
  /\ session' = IF ok
       THEN [session EXCEPT !.pc = "loop"]
       ELSE [session EXCEPT !.pc = "summary",
                            !.emitted = Append(@, "error")]
  /\ UNCHANGED nonPingVars

\* lines 157-161: StreamPing returns a stream, or an error that is written
\* to the viewer before the handler returns
Ping_Open(ok) ==
  /\ session.pc = "start"
  /\ session' = IF ok
       THEN [session EXCEPT !.pc = "loop"]
       ELSE [session EXCEPT !.pc = "done", !.emitted = Append(@, "error")]
  /\ UNCHANGED nonPingVars

\* lines 167-186: one result is taken from the stream, tallied and written
\* to the viewer; a failed write breaks the loop
Ping_Result(resp, wrote) ==
  /\ session.pc = "loop"
  /\ Len(session.probes) < MaxProbes
  /\ session' = [session EXCEPT
       !.probes = Append(@, resp),
       !.sent = IF CountsSent(resp) THEN @ + 1 ELSE @,
       !.received = IF CountsReceived(resp) THEN @ + 1 ELSE @,
       !.emitted = IF wrote THEN Append(@, "update") ELSE @,
       !.pc = IF wrote THEN "loop" ELSE "summary"]
  /\ UNCHANGED nonPingVars

\* line 167: the stream is closed, because its context was cancelled or its
\* transport ended
Ping_StreamClosed ==
  /\ session.pc = "loop"
  /\ session' = [session EXCEPT !.pc = "summary"]
  /\ UNCHANGED nonPingVars

\* lines 188-204: the summary is computed and written, and the handler
\* returns
Ping_Summary ==
  /\ session.pc = "summary"
  /\ session' = [session EXCEPT
       !.loss = LossPercent(session.sent, session.received),
       !.emitted = Append(@, "summary"),
       !.pc = "done"]
  /\ UNCHANGED nonPingVars

NextPing ==
  \/ \E ok \in BOOLEAN : Ping_Open(ok)
  \/ \E resp \in Responses, wrote \in BOOLEAN : Ping_Result(resp, wrote)
  \/ Ping_StreamClosed
  \/ Ping_Summary

SpecPing == Init /\ [][NextPing]_vars

\* --------------------------------------------------------------- C25
\* the results that carry a timing value or an empty status
Answered(q) == {i \in 1..Len(q) : q[i].Time \/ ~q[i].Status}
\* the percentage of the claim: a tie is rounded up
RoundedPercent(num, den) == (2 * num + den) \div (2 * den)

\* C25 as stated: the summary reports sent = the number of results taken,
\* received = the number of them that carry a timing value or an empty
\* status, and loss = (sent - received) / sent * 100 as a whole number, or
\* 100 when sent is 0.
C25_Original ==
  (session.pc = "done" /\ session.emitted # <<"error">>) =>
    /\ session.sent = Len(session.probes)
    /\ session.received = Cardinality(Answered(session.probes))
    /\ session.loss =
         IF session.sent = 0 THEN 100
         ELSE RoundedPercent((session.sent - session.received) * 100,
                             session.sent)

\* --------------------------------------------------------------- C26
Count(q, x) == Cardinality({i \in 1..Len(q) : q[i] = x})

\* C26: a session writes at most one summary and nothing after it; a session
\* whose stream was opened and that has ended has written exactly one
\* summary, as its last message, after the updates of its results; a session
\* whose stream failed to open has written one error and no summary.
C26_OneSummaryAtTheEnd ==
  LET out == session.emitted IN
    /\ Count(out, "summary") <= 1
    /\ \A i \in 1..Len(out) : out[i] = "summary" => i = Len(out)
    /\ Count(out, "summary") = 1 <=> (session.pc = "done" /\ out # <<"error">>)
    /\ Count(out, "error") = 1 <=> (session.pc = "done" /\ session.probes = << >>
                                     /\ Count(out, "summary") = 0)
    /\ Count(out, "update") <= Len(session.probes)

C26_Witness ==
  /\ session.pc = "done"
  /\ Len(session.probes) = 2
  /\ session.emitted = <<"update", "update", "summary">>

\* =====================================================================
\* From the device stream to the hub's connections
\* =====================================================================
\* The scenario's stream carries three samples
ScenarioSamples == MaxSamples + 2

\* StartMonitoring has returned the observer channel of caller 1 for k1 (no
\* monitor existed before), runMonitorLoop has opened the stream, nothing
\* has been emitted yet; the consumer and the broadcaster wait, the viewers'
\* connections are registered with the hub.
InitScenario ==
  /\ pc = [c \in Callers |-> IF c = 1 THEN "streaming" ELSE "idle"]
  /\ key = [c \in Callers |-> "k1"]
  /\ result = [c \in Callers |-> IF c = 1 THEN "chan" ELSE "none"]
  /\ cleaned = [c \in Callers |-> FALSE]
  /\ monitorLocks = {"k1"}
  /\ lockHolder = [k \in Keys |-> NoCaller]
  /\ activeMonitors = [k \in Keys |-> IF k = "k1" THEN 1 ELSE NoMonitor]
  /\ monitors = [m \in Callers |->
                   IF m = 1 THEN [NewMonitor("k1") EXCEPT !.Observers = {1}]
                            ELSE NilMonitor]
  /\ loopPc = [m \in Callers |-> IF m = 1 THEN "stream" ELSE "none"]
  /\ attempts = [m \in Callers |-> IF m = 1 THEN 1 ELSE 0]
  /\ tornBy = [m \in Callers |-> "none"]
  /\ chans = [c \in Callers |-> IF c = 1 THEN NewChan ELSE NoChan]
  /\ bus = << >>
  /\ produced = 0
  /\ frames = ScenarioSamples
  /\ inflight = [m \in Callers |-> NoSample]
  /\ takers = << >>
  /\ panicked = FALSE
  /\ gone = {}
  /\ InitLink
  /\ InitConsumer
  /\ clients = Conns
  /\ joined = Conns
  /\ left = {}
  /\ todo = {}
  /\ written = [c \in Conns |-> << >>]
  /\ snapshot = {}
  /\ failed = {}
  /\ current = 0
  /\ rlock = FALSE
  /\ InitPing
  /\ InitWire
  /\ InitProbe

PublishStream_XAdd_Lost(m) ==
  /\ Running
  /\ loopPc[m] = "publish"
  /\ bus' = Append(bus, inflight[m])
  /\ loopPc' = [loopPc EXCEPT ![m] = "fanout"]
  /\ UNCHANGED <<callerVars, cleaned, monitorLocks, lockHolder, activeMonitors,
                 monitors, tornBy, chans, produced, frames, inflight, takers,
                 historyVars, panicked>>
  /\ UNCHANGED outerVars

\* lines 378-380 and redis_publisher.go 50-63: the XAdd succeeds; the entry
\* carries the marshalled sample in its field "data" and is there for the
\* consumer group of redis_stream_consumer.go to read
PublishStream_XAdd(m) ==
  /\ Running
  /\ loopPc[m] = "publish"
  /\ bus' = Append(bus, inflight[m])
  /\ entries' = Append(entries, "json")
  /\ loopPc' = [loopPc EXCEPT ![m] = "fanout"]
  /\ UNCHANGED <<callerVars, cleaned, monitorLocks, lockHolder, activeMonitors,
                 monitors, tornBy, chans, produced, frames, inflight, takers,
                 historyVars, panicked>>
  /\ UNCHANGED <<viewerVars, linkVars, hubVars, pingVars, wireVars, probeVars,
                 lastDelivered, pel, acked, batch, cpc, handed, hubPc>>

\* the monitor's loop, the consumer and the broadcaster running side by side
\* while the device, Redis and the sockets work
ScenarioLoop ==
  \E m \in Callers :
    \/ processTrafficStream_Take(m, TRUE)
    \/ PublishStream_XAdd(m)
    \/ publishTrafficData_Fanout(m)

ScenarioConsumer ==
  \/ Start_XReadGroup
  \/ Start_Broadcast
  \/ Start_XAck(TRUE)

ScenarioHub ==
  \/ Broadcaster_RLock
  \/ \E c \in Conns : Broadcaster_WriteMessage(c, TRUE)
  \/ Broadcaster_RUnlock

NextScenario == ScenarioLoop \/ ScenarioConsumer \/ ScenarioHub

\* each of the three goroutines runs when it can
FairnessScenario ==
  /\ WF_vars(ScenarioLoop)
  /\ WF_vars(ScenarioConsumer)
  /\ WF_vars(ScenarioHub)

SpecScenario == InitScenario /\ [][NextScenario]_vars /\ FairnessScenario

Emitted == [i \in 1..ScenarioSamples |-> Sample("k1", i)]
EntryIds == [i \in 1..ScenarioSamples |-> i]

AllDelivered ==
  /\ chans[1].buf = Emitted
  /\ bus = Emitted
  /\ Len(entries) = ScenarioSamples
  /\ acked = 1..ScenarioSamples
  /\ pel = {}
  /\ \A c \in Conns : written[c] = EntryIds

EntersBackoff(m) ==
  /\ loopPc[m] \in {"open", "stream"}
  /\ loopPc'[m] = "top"

\* C28 as stated: once the context of a monitor is cancelled its loop takes
\* neither of the steps that count a restart and sleep; it only terminates.
C28_Original ==
  [][\A m \in Callers : monitors[m].cancelled => ~EntersBackoff(m)]_vars

\* monitor m is the one that activeMonitors holds for its customer
Registered(m) ==
  /\ monitors[m].created
  /\ activeMonitors[monitors[m].CustomerID] = m

\* C29 as stated: while a monitor is registered its restartCount changes only
\* by the failed opens and the closures of its own stream, by one each, and
\* nothing else moves it (no sample resets it); the teardown for exhaustion
\* happens when the count is exactly maxRestarts.
C29_Original ==
  [][\A m \in Callers :
       Registered(m) =>
         /\ Registered(m)' =>
              monitors'[m].restartCount =
                monitors[m].restartCount + (IF EntersBackoff(m) THEN 1 ELSE 0)
         /\ (tornBy[m] # "restart" /\ tornBy'[m] = "restart") =>
              monitors[m].restartCount = maxRestarts]_vars

\* =====================================================================
\* Frames without a map, samples without an interface name
\* =====================================================================
nonWireVars ==
  <<callerVars, cleaned, monitorLocks, lockHolder, activeMonitors, monitors,
    tornBy, chans, bus, frames, attempts, panicked, viewerVars, linkVars,
    consumerVars, hubVars, pingVars, probeVars>>

\* what the device pushes on the reply channel: a sentence without a map, a
\* map without (or with an empty) "name", a map with a name
FrameKinds == {"nomap", "noname", "named"}

MonitorTraffic_Reply_SendAll(kind) ==
  /\ Running
  /\ wire.state = "select"
  /\ wire.left > 0
  /\ wire' = [wire EXCEPT !.left = @ - 1, !.seen = Append(@, kind),
                          !.state = "send", !.out = kind]
  /\ UNCHANGED <<nonWireVars, loopPc, produced, inflight, takers>>

\* part_002 lines 68-76: the goroutine takes a frame of the reply channel;
\* `r == nil || r.Map == nil` continues, any other frame is mapped and sent
\* on out, which blocks until processTrafficStream receives
MonitorTraffic_Reply(kind) ==
  /\ Running
  /\ wire.state = "select"
  /\ wire.left > 0
  /\ wire' = IF kind = "nomap"
               THEN [wire EXCEPT !.left = @ - 1, !.seen = Append(@, kind)]
               ELSE [wire EXCEPT !.left = @ - 1, !.seen = Append(@, kind),
                                 !.state = "send", !.out = kind]
  /\ UNCHANGED <<nonWireVars, loopPc, produced, inflight, takers>>

\* part_002 lines 62 and 68-71: the reply channel is closed; the goroutine
\* returns and closes out
MonitorTraffic_ReplyClosed ==
  /\ Running
  /\ wire.state = "select"
  /\ wire' = [wire EXCEPT !.state = "ended"]
  /\ UNCHANGED <<nonWireVars, loopPc, produced, inflight, takers>>

\* part_006 lines 313-327: processTrafficStream receives the frame sent on
\* out; mapToInterfaceTraffic gives Name = m["name"], and a frame whose Name
\* is empty is skipped with `continue`
processTrafficStream_Recv(m) ==
  /\ Running
  /\ loopPc[m] = "stream"
  /\ wire.state = "send"
  /\ wire' = [wire EXCEPT !.state = "select", !.out = "none",
                          !.sent = Append(@, wire.out)]
  /\ produced' = produced + 1
  /\ takers' = Append(takers, m)
  /\ IF wire.out = "named"
       THEN /\ inflight' = [inflight EXCEPT
                              ![m] = Sample(monitors[m].CustomerID, produced + 1)]
            /\ loopPc' = [loopPc EXCEPT ![m] = "publish"]
       ELSE UNCHANGED <<inflight, loopPc>>
  /\ UNCHANGED nonWireVars

\* part_006 lines 314-317 and 288-298: out is closed; a restart is counted
processTrafficStream_OutClosed(m) ==
  /\ wire.state = "ended"
  /\ processTrafficStream_Closed(m)

\* part_006 lines 268-283 and part_002 lines 38-66: MonitorTraffic opens a
\* new stream and starts its goroutine, or fails
MonitorTraffic_Open(m, ok) ==
  /\ Running
  /\ loopPc[m] = "open"
  /\ attempts' = [attempts EXCEPT ![m] = @ + 1]
  /\ IF ok
       THEN /\ loopPc' = [loopPc EXCEPT ![m] = "stream"]
            /\ wire' = [wire EXCEPT !.state = "select", !.out = "none"]
            /\ monitors' = monitors
       ELSE /\ loopPc' = [loopPc EXCEPT ![m] = "top"]
            /\ monitors' = CountRestart(monitors, monitors[m].CustomerID)
            /\ wire' = wire
  /\ UNCHANGED <<callerVars, cleaned, monitorLocks, lockHolder, activeMonitors,
                 tornBy, chans, streamVars, panicked, viewerVars, linkVars,
                 consumerVars, hubVars, pingVars, probeVars>>

NextFrames ==
  \/ \E kind \in FrameKinds : MonitorTraffic_Reply(kind)
  \/ MonitorTraffic_ReplyClosed
  \/ \E m \in Callers : processTrafficStream_Recv(m)
  \/ \E m \in Callers : processTrafficStream_OutClosed(m)
  \/ \E m \in Callers, ok \in BOOLEAN : PublishStream(m, ok)
  \/ \E m \in Callers : publishTrafficData_Fanout(m)
  \/ \E m \in Callers : runMonitorLoop_Top(m)
  \/ \E m \in Callers : runMonitorLoop_Check(m)
  \/ \E m \in Callers, ok \in BOOLEAN : MonitorTraffic_Open(m, ok)

SpecFrames == InitScenario /\ [][NextFrames]_vars

\* the step skips a frame: the goroutine of MonitorTraffic drops a sentence
\* without a map, or processTrafficStream drops a frame without a name
SkipsFrame ==
  \/ /\ Len(wire'.seen) > Len(wire.seen)
     /\ wire'.seen[Len(wire'.seen)] = "nomap"
  \/ /\ Len(wire'.sent) > Len(wire.sent)
     /\ wire'.sent[Len(wire'.sent)] # "named"

\* the samples that were published or delivered come from named frames
FromNamedFrame(q) ==
  \A i \in 1..Len(q) : q[i].seq > 0 => wire.sent[q[i].seq] = "named"

\* C30: a frame without a map is never sent on the channel MonitorTraffic
\* returns; a sample without an interface name reaches neither the Redis
\* stream nor an observer; and the step that skips such a frame leaves the
\* stream open, the loop in processTrafficStream and every restartCount as
\* they were.
C30_SkippedFramesLeaveNoTrace ==
  /\ [](/\ wire.out # "nomap"
        /\ \A i \in 1..Len(wire.sent) : wire.sent[i] # "nomap"
        /\ FromNamedFrame(bus)
        /\ \A c \in Callers : FromNamedFrame(chans[c].buf))
  /\ [][SkipsFrame =>
          /\ wire'.state = "select"
          /\ loopPc' = loopPc
          /\ monitors' = monitors
          /\ bus' = bus
          /\ chans' = chans]_vars

\* both kinds of frame were skipped, a later named frame was published and
\* delivered by the same stream, and nothing was counted
C30_Witness ==
  /\ \E i \in 1..Len(wire.seen) : wire.seen[i] = "nomap"
  /\ \E i \in 1..Len(wire.sent) : wire.sent[i] = "noname"
  /\ Len(wire.seen) = WireFrames
  /\ Len(bus) = 1 /\ bus[1].seq = 2
  /\ chans[1].buf = bus
  /\ monitors[1].restartCount = 0
  /\ attempts[1] = 1
  /\ wire.state = "select"

\* =====================================================================
\* A probe session and its viewer: PingCustomerStream with its read pump
\* and the goroutine of StreamPing
\* =====================================================================
nonProbeVars ==
  <<callerVars, cleaned, monitorLocks, lockHolder, serviceVars, streamVars,
    historyVars, panicked, viewerVars, linkVars, consumerVars, hubVars,
    pingVars, wireVars>>

\* the viewer's connection closes
Viewer_Close ==
  /\ probe.viewer = "open"
  /\ probe.handler # "done"
  /\ probe' = [probe EXCEPT !.viewer = "closed"]
  /\ UNCHANGED nonProbeVars

\* ping_handler.go lines 148-155: ReadMessage fails on the closed connection
\* and the read pump cancels the context
ReadPump_Cancel ==
  /\ probe.viewer = "closed"
  /\ probe.pump = "reading"
  /\ probe' = [probe EXCEPT !.pump = "done", !.ctx = TRUE]
  /\ UNCHANGED nonProbeVars

\* ping_handler.go lines 157-161 and part_000 lines 45-62: StreamPing starts
\* its goroutine, or fails; then the handler writes the error and returns,
\* and the deferred cancel runs
Probe_StreamPing(ok) ==
  /\ probe.handler = "open"
  /\ probe' = IF ok
       THEN [probe EXCEPT !.handler = "loop", !.gor = "select"]
       ELSE [probe EXCEPT !.handler = "done", !.ctx = TRUE]
  /\ UNCHANGED nonProbeVars

\* part_000 lines 68-76: the select takes a frame; a frame with a map is
\* sent on out, a plain send on an unbuffered channel
Probe_Reply(mapped) ==
  /\ probe.gor = "select"
  /\ probe.left > 0
  /\ probe' = [probe EXCEPT !.left = @ - 1,
                            !.gor = IF mapped THEN "send" ELSE "select"]
  /\ UNCHANGED nonProbeVars

\* part_000 lines 62-67: the select takes ctx.Done(); out is closed
Probe_ctxDone ==
  /\ probe.gor = "select"
  /\ probe.ctx
  /\ probe' = [probe EXCEPT !.gor = "ended"]
  /\ UNCHANGED nonProbeVars

\* part_000 lines 68-71: the reply channel is closed (the device or the
\* transport ended the listen); out is closed
Probe_ReplyClosed ==
  /\ probe.gor = "select"
  /\ probe' = [probe EXCEPT !.gor = "ended"]
  /\ UNCHANGED nonProbeVars

\* ping_handler.go line 167 and part_000 line 76: the range loop receives
\* the result the goroutine is sending
Probe_Recv ==
  /\ probe.handler = "loop"
  /\ probe.gor = "send"
  /\ probe' = [probe EXCEPT !.handler = "write", !.gor = "select"]
  /\ UNCHANGED nonProbeVars

\* ping_handler.go lines 179-185: the update is written; a failed write
\* breaks the loop.  A write to a connection that is still open succeeds.
Probe_Write(ok) ==
  /\ probe.handler = "write"
  /\ probe.viewer = "open" => ok
  /\ probe' = [probe EXCEPT !.handler = IF ok THEN "loop" ELSE "summary",
                            !.updates = IF ok THEN @ + 1 ELSE @]
  /\ UNCHANGED nonProbeVars

\* ping_handler.go line 167: out is closed, the range loop ends
Probe_RangeEnds ==
  /\ probe.handler = "loop"
  /\ probe.gor = "ended"
  /\ probe' = [probe EXCEPT !.handler = "summary"]
  /\ UNCHANGED nonProbeVars

\* ping_handler.go lines 188-204, 139 and 121: the summary is written, the
\* handler returns, the deferred cancel and ws.Close run
Probe_Summary ==
  /\ probe.handler = "summary"
  /\ probe' = [probe EXCEPT !.handler = "done", !.ctx = TRUE,
                            !.viewer = "closed"]
  /\ UNCHANGED nonProbeVars

NextProbe ==
  \/ Viewer_Close
  \/ ReadPump_Cancel
  \/ \E ok \in BOOLEAN : Probe_StreamPing(ok)
  \/ \E mapped \in BOOLEAN : Probe_Reply(mapped)
  \/ Probe_ctxDone
  \/ Probe_ReplyClosed
  \/ Probe_Recv
  \/ \E ok \in BOOLEAN : Probe_Write(ok)
  \/ Probe_RangeEnds
  \/ Probe_Summary

\* the handler, the read pump and the goroutine of StreamPing run when they
\* can; when the viewer hangs up, when the device pushes a frame or ends the
\* listen is not up to the scheduler
FairnessProbe ==
  /\ WF_vars(ReadPump_Cancel)
  /\ WF_vars(\E ok \in BOOLEAN : Probe_StreamPing(ok))
  /\ WF_vars(Probe_ctxDone)
  /\ WF_vars(Probe_Recv)
  /\ WF_vars(\E ok \in BOOLEAN : Probe_Write(ok))
  /\ WF_vars(Probe_RangeEnds)
  /\ WF_vars(Probe_Summary)

SpecProbe == Init /\ [][NextProbe]_vars /\ FairnessProbe

\* the viewer hung up while the stream of the session was open
ClosedDuringSession ==
  /\ probe.viewer = "closed"
  /\ probe.gor \in {"select", "send"}

\* C32 as stated: when the viewer's connection closes during a session, the
\* context is cancelled, the stream of StreamPing ends (its goroutine returns
\* and closes the channel) and the handler returns.
C32_Original ==
  ClosedDuringSession ~>
    (probe.ctx /\ probe.gor = "ended" /\ probe.handler = "done")

\* what does hold: the context is cancelled and the handler returns
C32_HandlerReturns ==
  ClosedDuringSession ~> (probe.ctx /\ probe.handler = "done")

\* =====================================================================
\* Closing and sending on observer channels
\* =====================================================================
\* the step runs the cleanup of addObserver (lines 347-355) for caller c and
\* finds a monitor registered for the caller's customer: it closes the
\* caller's channel
CleanupCloses(c) ==
  /\ ~cleaned[c]
  /\ cleaned'[c]
  /\ activeMonitors[key[c]] # NoMonitor

\* the step tears monitor m down (lines 210-221 or 244-263) and closes every
\* channel of its observer set, that of caller c among them
TeardownCloses(c) ==
  \E m \in Callers :
    /\ tornBy[m] = "none"
    /\ tornBy'[m] # "none"
    /\ c \in monitors[m].Observers

\* C33 as stated: no step closes an observer channel that is closed already.
C33_Original ==
  [][\A c \in Callers :
       chans[c].closed => ~(CleanupCloses(c) \/ TeardownCloses(c))]_vars

\* the step puts a sample (or the sentinel) into the channel of caller c
SendsOn(c) ==
  /\ chans[c].made
  /\ chans'[c].made
  /\ Len(chans'[c].buf) > Len(chans[c].buf)

\* C34: every channel in the observer set of a registered monitor is open,
\* and no step sends a sample or the sentinel on a channel that is closed.
C34_NoSendOnClosed ==
  /\ [](\A k \in Keys : \A c \in Attached(k) :
          chans[c].made /\ ~chans[c].closed)
  /\ [][\A c \in Callers : SendsOn(c) => ~chans[c].closed]_vars

\* a channel got the sentinel and was closed by the exhaustion teardown, and
\* the observer of a later monitor has been sent a sample
C34_Witness ==
  /\ \E c \in Callers :
       /\ chans[c].closed
       /\ \E i \in 1..Len(chans[c].buf) : chans[c].buf[i].seq = 0
  /\ \E k \in Keys : \E d \in Attached(k) :
       \E i \in 1..Len(chans[d].buf) : chans[d].buf[i].seq > 0

\* =====================================================================
\* Whose monitor a StopMonitoring and a loop act on
\* =====================================================================
\* the monitor caller c subscribed to has been torn down: a teardown has
\* closed the caller's channel (the caller's own cleanup has not run)
OwnMonitorTornDown(c) ==
  /\ Subscribed(c)
  /\ chans[c].closed
  /\ ~cleaned[c]

\* C35 as stated: the StopMonitoring of a viewer whose monitor was torn down
\* leaves the monitor that is registered for the customer id as it is: it is
\* not removed and its Clients is not decremented.
C35_Original ==
  [][\A c \in Callers :
       (OwnMonitorTornDown(c) /\ pc'[c] = "done") =>
         /\ activeMonitors' = activeMonitors
         /\ \A m \in Callers : monitors'[m].Clients = monitors[m].Clients]_vars

\* the step is one of the loop of monitor m, which has been torn down
StaleLoopStep(m) ==
  /\ monitors[m].cancelled
  /\ loopPc'[m] # loopPc[m]

\* C36 as stated: a step of the loop of a monitor that has been torn down
\* changes no other monitor: not its restartCount, not its registration, and
\* it closes no channel.
C36_Original ==
  [][\A m \in Callers :
       StaleLoopStep(m) =>
         /\ \A x \in Callers \ {m} :
              /\ monitors'[x].restartCount = monitors[x].restartCount
              /\ tornBy'[x] = tornBy[x]
         /\ activeMonitors' = activeMonitors
         /\ \A c \in Callers : chans'[c].closed = chans[c].closed]_vars

\* =====================================================================
\* The registry between critical sections of s.mu
\* =====================================================================
\* C37: between the critical sections of s.mu (every action of the service
\* is one) each monitor in activeMonitors has Clients >= 1 and a context that
\* is not cancelled; so Cancel and the delete are never in different
\* critical sections.
C37_RegisteredIsLive ==
  \A k \in Keys :
    activeMonitors[k] # NoMonitor =>
      /\ monitors[activeMonitors[k]].created
      /\ monitors[activeMonitors[k]].CustomerID = k
      /\ monitors[activeMonitors[k]].Clients >= 1
      /\ ~monitors[activeMonitors[k]].cancelled

\* one monitor has been torn down and cancelled; a monitor is registered
\* with one client left, and a viewer of its customer has unsubscribed
C37_Witness ==
  /\ \E m \in Callers : monitors[m].cancelled /\ tornBy[m] # "none"
  /\ \E k \in Keys :
       /\ activeMonitors[k] # NoMonitor
       /\ monitors[activeMonitors[k]].Clients = 1
       /\ \E c \in Callers :
            key[c] = k /\ pc[c] = "done" /\ result[c] = "chan"

====
